---- MODULE Spec2Model ----
(***************************************************************************)
(* A model of distributed-backup: the transfer/versioning engine           *)
(* (pkg/filemanager/backupper.go), the signalling mailbox                  *)
(* (pkg/signal/file_io.go), the peer transport (pkg/peer/webrtc.go) and    *)
(* the orchestrator (internal/app.go).                                     *)
(*                                                                         *)
(* Each subsystem has its own specification (SpecTransfer, SpecPing, ...). *)
(* The variables of the subsystems a specification does not exercise keep  *)
(* their initial values.                                                   *)
(***************************************************************************)
EXTENDS Integers, Sequences, FiniteSets, TLC

VARIABLES
    \* ---- transfer engine: receiver's file system and configuration
    files,        \* regular files of the receiver: resolved path -> content
    dirs,         \* directories of the receiver (resolved paths)
    Versions,     \* BackupperConfig.Versions of the receiver
    frameName,    \* the name the sender puts into the frame header
    srcContent,   \* the bytes the sender streams after the header
    \* ---- transfer engine: data channel
    wire,         \* bytes written by the sender and not yet read
    wireState,    \* "open" | "closed" (sender half-closed) | "failed"
    \* ---- transfer engine: the two onEstablish tasks
    spc,          \* sender's position
    rpc,          \* receiver's position
    nameLen,      \* receiver: var nameLen uint8
    name,         \* receiver: name []byte
    shiftI,       \* receiver: loop variable i of shiftFileVersions
    recvErr,      \* receiver: receiveFile returned an error
    sendErr,      \* sender: sendSourceEntry returned an error
    \* ---- transfer engine: bookkeeping of the runs
    run,          \* number of runs (process pairs) started so far
    faults,       \* number of injected environment failures so far
    received,     \* history: one record per receive that returned nil
    snap,         \* history: files when the current run's receiver started
    written,      \* history: paths created or written by the receiver so far
    initFiles,    \* history: the files before the first run
    \* ---- signalling mailbox (file.io) and the role election of two instances
    mailbox,      \* entries on the service, in creation order
    nextKey,      \* the key the service gives to the next upload
    dpc,          \* per instance: position in WebRTC.Dial / FileIo.Ping
    nodes,        \* per instance: files.Nodes the loop of Ping has yet to delete
    pingResult,   \* per instance: "" | "found" | "notFound" | "error"
    dialResult,   \* per instance: "" | "ok" | "error"
    onDataChannel,\* per instance: "" | "incoming" (handler set) | "created"
    reqFaults,    \* number of failed mailbox requests so far
    sigLog,       \* history: the requests the service has served, in order
    startedAfter, \* history, per instance: whose Ping had returned at its start
    initMailbox,  \* history: the mailbox before the first request
    \* ---- peer transport of one instance: candidate trickling
    dialRole,     \* what Dial made of the instance: "offerer" | "answerer"
    remoteDescription, \* conn.RemoteDescription(): "" (nil) | "offer" | "answer"
    localDescription,  \* conn.LocalDescription(): "" (nil) | "offer" | "answer"
    candidates,   \* p.candidates: the buffered local candidates
    candidatesMx, \* p.candidatesMx: "" (free) | "sdp" | "ice" (the holder)
    emitted,      \* number of candidates the ICE agent has emitted
    gatherDone,   \* the ICE agent has reported the end of gathering (nil)
    published,    \* history: candidates uploaded by SendCandidate, in order
    sdpPc,        \* position of onSignalSDP in the polling goroutine
    sdpType,      \* the type of the description onSignalSDP is handling
    sdpSeen,      \* number of descriptions dispatched to onSignalSDP
    flushI,       \* index of the loop over p.candidates in onSignalSDP
    ipc,          \* position of onConnICECandidate in the agent's goroutine
    iceCur,       \* the candidate onConnICECandidate is handling
    connClosed,   \* conn.ConnectionState() == PeerConnectionStateClosed
    installedAt,  \* history: candidates emitted before the remote description
                  \* was installed (-1 while there is none)
    \* ---- orchestrator and the terminal notifications of one instance
    connState,    \* webrtc.PeerConnectionState of p.conn
    notifiers,    \* onConnStateChange goroutines blocked in the channel send
    doneSent,     \* history: sends on p.shutdownChan begun so far
    doneReceived, \* history: values received from p.shutdownChan so far
    opc,          \* position of runBackupMode
    ctxDone,      \* the root context is cancelled
    fmPc,         \* position of Backupper.onEstablish
    listenPc,     \* position of FileIo.Listen
    tickC,        \* ticker.C of Listen holds a tick
    listenLog,    \* history of Listen: its polls and its cleanUp
    \* ---- polling loop of instance A
    pollPc,       \* position of sniffCandidates: "wait" (ticker) | "nodes"
    pollNodes,    \* files.Nodes the loop of sniffCandidates has yet to handle
    polls,        \* number of ticks so far
    skipped,      \* history: names of the entries the loop has passed over
    downloaded,   \* history: entries the loop has downloaded
    dispatched,   \* history: entries passed to sdpHandler or candidateHandler
    sdpSent,      \* history: the instances that have uploaded a description
    taken,        \* history: names of the entries someone else has removed
    failedDownloads, \* history: names of the entries whose download failed
    \* ---- FileIo.request of one instance, with time in milliseconds
    now,          \* the clock
    requestMx,    \* s.requestMx is locked
    delayUnlocks, \* wake-up times of the goroutines started by DelayUnlock
    cpc,          \* per caller: position in FileIo.request
    wakeAt,       \* per caller: end of its time.Sleep
    sent,         \* history: time and caller of every http.DefaultClient.Do
    \* ---- one process from main to its call of Dial
    cfg,          \* the command line as App holds it after parseCmdline
    apc,          \* position of main (Setup, then Run)
    exitErr,      \* the error main has passed to log.Fatal, or the panic
    passwordManager, \* a.passwordManager != nil
    dialCalled,   \* a.peer.Dial() has been called
    mailboxRequests, \* history: the mailbox requests issued so far
    \* ---- one mailbox operation of one instance and its 429 loop
    bop,          \* the operation: findFiles, downloadFile, deleteFile, uploadFile
    bpc,          \* position of the operation inside FileIo.request
    reqBody,      \* req.Body: "none" | "full" | "drained" (read to its end)
    doLog,        \* history: what each Do of the request has put on the wire
    resp,         \* the response http.DefaultClient.Do has returned last
    opResult,     \* what the operation has returned to its caller
    \* ---- FileIo.cleanUp of one instance
    cleanPc,      \* position of cleanUp: "idle" | "find" | "delete" | ...
    cleanNodes,   \* files.Nodes the loop of cleanUp has yet to delete
    cleanFailed,  \* history: a request of cleanUp has failed
    \* ---- negotiation: the polling loops and SDP handlers of both instances
    negPc,        \* per instance, Listen: "off" | "wait" | "nodes" | "answer" | "flush"
    negNodes,     \* per instance, files.Nodes the loop has yet to visit
    sdpHandled,   \* per instance, history: the payloads passed to onSignalSDP
    candHandled,  \* per instance, history: the payloads passed to onSignalCandidate
    negRemote,    \* per instance, the type of conn.RemoteDescription(), or ""
    negLocal,     \* per instance, the type of the local description, or ""
    negBuf,       \* per instance, p.candidates
    negFlushI,    \* per instance, the index of the loop of onSignalSDP in p.candidates
    negEmitted,   \* per instance, the number of candidates the ICE agent has emitted
    \* ---- the two mutexes of one instance and the goroutines that take them
    lockPc,       \* per goroutine: "idle" | "lockCand" | "held" | "lockReq" | "do" | "cleanUp" | "done"
    candidatesMxBy, \* the goroutine that holds p.candidatesMx, or ""
    requestMxHeld, \* s.requestMx is locked
    unlockTimers, \* the goroutines of DelayUnlock that have not yet unlocked
    lockTodo,     \* per goroutine, the mailbox requests it has yet to make
    lockRetries   \* the 429 responses the request in flight has been answered with

transferVars == <<files, dirs, Versions, frameName, srcContent, wire, wireState,
                  spc, rpc, nameLen, name, shiftI, recvErr, sendErr, run, faults,
                  received, snap, written, initFiles>>

pingVars == <<mailbox, nextKey, dpc, nodes, pingResult, dialResult,
              onDataChannel, reqFaults, sigLog, startedAfter, initMailbox>>

candVars == <<dialRole, remoteDescription, localDescription, candidates,
              candidatesMx, emitted, gatherDone, published, sdpPc, sdpType,
              sdpSeen, flushI, ipc, iceCur, connClosed, installedAt>>

doneVars == <<connState, notifiers, doneSent, doneReceived, opc, ctxDone, fmPc,
              listenPc, tickC, listenLog>>

pollVars == <<pollPc, pollNodes, polls, skipped, downloaded, dispatched,
              sdpSent, taken, failedDownloads>>

rateVars == <<now, requestMx, delayUnlocks, cpc, wakeAt, sent>>

setupVars == <<cfg, apc, exitErr, passwordManager, dialCalled, mailboxRequests>>

backoffVars == <<bop, bpc, reqBody, doLog, resp, opResult>>

cleanVars == <<cleanPc, cleanNodes, cleanFailed>>

negVars == <<negPc, negNodes, sdpHandled, candHandled, negRemote, negLocal, negBuf, negFlushI, negEmitted>>

lockVars == <<lockPc, candidatesMxBy, requestMxHeld, unlockTimers, lockTodo, lockRetries>>

\* the variables the transfer engine does not touch
sessionVars == <<pingVars, candVars, doneVars, pollVars, rateVars, setupVars, backoffVars, cleanVars, negVars, lockVars>>

vars == <<transferVars, sessionVars>>

\* the two instances of a session
Peers == {"A", "B"}

\* no instance has called Dial and the mailbox is empty
PingIdle ==
    /\ mailbox = <<>>
    /\ nextKey = 1
    /\ dpc = [p \in Peers |-> "init"]
    /\ nodes = [p \in Peers |-> <<>>]
    /\ pingResult = [p \in Peers |-> ""]
    /\ dialResult = [p \in Peers |-> ""]
    /\ onDataChannel = [p \in Peers |-> ""]
    /\ reqFaults = 0
    /\ sigLog = <<>>
    /\ startedAfter = [p \in Peers |-> {}]
    /\ initMailbox = <<>>

\* a peer transport after NewWebRTC: no description, no candidate
CandIdle ==
    /\ dialRole = ""
    /\ remoteDescription = ""
    /\ localDescription = ""
    /\ candidates = <<>>
    /\ candidatesMx = ""
    /\ emitted = 0
    /\ gatherDone = FALSE
    /\ published = <<>>
    /\ sdpPc = "idle"
    /\ sdpType = ""
    /\ sdpSeen = 0
    /\ flushI = 0
    /\ ipc = "idle"
    /\ iceCur = 0
    /\ connClosed = FALSE
    /\ installedAt = -1

\* an orchestrator that has not called Dial yet
DoneIdle ==
    /\ connState = "new"
    /\ notifiers = 0
    /\ doneSent = 0
    /\ doneReceived = 0
    /\ opc = "dial"
    /\ ctxDone = FALSE
    /\ fmPc = "idle"
    /\ listenPc = "idle"
    /\ tickC = FALSE
    /\ listenLog = <<>>

\* a polling loop that has not been started
PollIdle ==
    /\ pollPc = "wait"
    /\ pollNodes = <<>>
    /\ polls = 0
    /\ skipped = {}
    /\ downloaded = <<>>
    /\ dispatched = <<>>
    /\ sdpSent = {}
    /\ taken = {}
    /\ failedDownloads = {}

\* the goroutines of an instance that call FileIo.request: Dial, the
\* polling loop (with cleanUp) and the candidate callback
Callers == {"dial", "listen", "ice"}

\* no request has been made
RateIdle ==
    /\ now = 0
    /\ requestMx = FALSE
    /\ delayUnlocks = {}
    /\ cpc = [c \in Callers |-> "idle"]
    /\ wakeAt = [c \in Callers |-> 0]
    /\ sent = <<>>

\* the command line of an instance with every path valid: a receiver into
\* an existing directory
ValidCmdline ==
    [encryptionMode |-> FALSE, passwordFile |-> "", apiKey |-> "k",
     sessionUUID |-> "u", zipDir |-> FALSE, sourceEntry |-> "",
     outputFilename |-> "", destinationDir |-> "dir"]

\* a process whose set-up is not examined: it has reached runBackupMode
SetupIdle ==
    /\ cfg = ValidCmdline
    /\ apc = "run"
    /\ exitErr = ""
    /\ passwordManager = FALSE
    /\ dialCalled = FALSE
    /\ mailboxRequests = <<>>

\* no mailbox operation is examined
BackoffIdle ==
    /\ bop = ""
    /\ bpc = "idle"
    /\ reqBody = "none"
    /\ doLog = <<>>
    /\ resp = ""
    /\ opResult = ""

\* an instance whose Listen has not reached cleanUp
CleanIdle ==
    /\ cleanPc = "idle"
    /\ cleanNodes = <<>>
    /\ cleanFailed = FALSE

\* no polling loop of the negotiation has been started
NegIdle ==
    /\ negPc = [p \in Peers |-> "off"]
    /\ negNodes = [p \in Peers |-> <<>>]
    /\ sdpHandled = [p \in Peers |-> <<>>]
    /\ candHandled = [p \in Peers |-> <<>>]
    /\ negRemote = [p \in Peers |-> ""]
    /\ negLocal = [p \in Peers |-> ""]
    /\ negBuf = [p \in Peers |-> <<>>]
    /\ negFlushI = [p \in Peers |-> 0]
    /\ negEmitted = [p \in Peers |-> 0]

\* the goroutines that take the mutexes of one instance: the polling loop
\* (onSignalSDP, then cleanUp) and two candidate callbacks
LockTasks == {"listen", "ice1", "ice2"}

\* no goroutine has reached a mutex
LockIdle ==
    /\ lockPc = [t \in LockTasks |-> "idle"]
    /\ candidatesMxBy = ""
    /\ requestMxHeld = FALSE
    /\ unlockTimers = 0
    /\ lockTodo = [t \in LockTasks |-> 0]
    /\ lockRetries = 0

SessionIdle == PingIdle /\ CandIdle /\ DoneIdle /\ PollIdle /\ RateIdle /\ SetupIdle /\ BackoffIdle /\ CleanIdle /\ NegIdle /\ LockIdle

-----------------------------------------------------------------------------
(* Bounds of the model *)

\* largest configured Versions value explored
MaxVersions == 2
\* largest number of mailbox requests that fail
MaxReqFaults == 1
\* largest number of local candidates the ICE agent emits
MaxCandidates == 3
\* largest number of remote descriptions the polling loop dispatches
MaxSdp == 1
\* largest number of terminal connection-state changes
MaxTerminal == 3
\* largest number of entries uploaded while the polling loop runs
MaxEntries == 2
\* largest number of ticks of the polling loop
MaxPolls == 2
\* the step of the clock and the last time explored, in milliseconds
TimeStep == 1250
MaxTime == 12500
\* number of consecutive runs (one transfer each) explored
MaxRuns == 3
\* number of injected environment failures (file system, connection) explored
MaxFaults == 1

(* Program constants *)

\* uint8(len(b)): the length byte holds len mod 256
UInt8 == 256
\* os.PathSeparator
Slash == 47
\* the "." of fmt.Sprintf(".%d", i), also the "." of ".." and "."
Dot == 46
\* the digit "0" of fmt.Sprintf("%d")
Digit0 == 48
\* s.requestMx.DelayUnlock(2500 * time.Millisecond)
SpacingDelay == 2500
\* time.Sleep(7500 * time.Millisecond)
BackoffDelay == 7500

Min(a, b) == IF a < b THEN a ELSE b

\* a sequence of n copies of byte b
Rep(b, n) == [i \in 1..n |-> b]

-----------------------------------------------------------------------------
(* Byte strings and paths *)

\* DestinationDir of the receiver: "/d"
DestinationDir == <<Slash, 100>>

\* The frame name of the repeated transfers: filepath.Base(SourceEntry) of a
\* file "f"
SourceNames == { <<102>> }

\* Frame names a sender can be configured with (OutputFilename is any
\* non-empty string): 1, 2, 255 and 256 bytes long, and names that are no
\* plain file name: "s/f", "../f", ".."
EdgeNames ==
    { <<102>>,
      <<102, 103>>,
      <<115, Slash, 102>>,
      <<Dot, Dot, Slash, 102>>,
      <<Dot, Dot>>,
      Rep(102, UInt8 - 1),
      Rep(102, UInt8) }

\* the contents a sender can stream
SourceContents == { <<>>, <<2, 3>> }

\* content of a file left at chain index i by earlier use of the directory
OldContent(i) == <<9, i>>

\* strconv of fmt.Sprintf("%d", i)
RECURSIVE Dec(_)
Dec(i) == IF i < 10 THEN <<Digit0 + i>>
          ELSE Dec(i \div 10) \o <<Digit0 + (i % 10)>>

\* path := m.cfg.DestinationDir + string(os.PathSeparator) + string(name)
JoinPath(dir, n) == dir \o <<Slash>> \o n

\* (mutation of VersionPath: the newest file is looked for at "path.0")
VersionPathAlwaysSuffixed(path, i) == path \o <<Dot>> \o Dec(i)

\* oldVersionPath of shiftFileVersions: the path itself for i = 0
VersionPath(path, i) == IF i # 0 THEN path \o <<Dot>> \o Dec(i) ELSE path

\* the segments of a raw path (split at every separator)
Split(s) ==
    LET seps == {i \in 1..Len(s) : s[i] = Slash}
        Sep(j) == IF j = 0 THEN 0
                  ELSE IF j > Cardinality(seps) THEN Len(s) + 1
                  ELSE CHOOSE i \in seps : Cardinality({x \in seps : x <= i}) = j
    IN [k \in 1..(Cardinality(seps) + 1) |-> SubSeq(s, Sep(k - 1) + 1, Sep(k) - 1)]

Parent(p) == IF p = <<>> THEN <<>> ELSE SubSeq(p, 1, Len(p) - 1)

\* the operating system's path resolution against the files fl and the
\* directories ds: [err, path]; err is "ENOENT" when an intermediate
\* component does not exist and "ENOTDIR" when it is a regular file
RECURSIVE Walk(_, _, _, _, _)
Walk(segs, k, cur, fl, ds) ==
    IF k > Len(segs) THEN [err |-> "", path |-> cur]
    ELSE IF segs[k] = <<>> \/ segs[k] = <<Dot>>
         THEN Walk(segs, k + 1, cur, fl, ds)
    ELSE IF segs[k] = <<Dot, Dot>>
         THEN Walk(segs, k + 1, Parent(cur), fl, ds)
    ELSE IF k = Len(segs) THEN [err |-> "", path |-> Append(cur, segs[k])]
    ELSE IF Append(cur, segs[k]) \in ds
         THEN Walk(segs, k + 1, Append(cur, segs[k]), fl, ds)
    ELSE IF Append(cur, segs[k]) \in DOMAIN fl
         THEN [err |-> "ENOTDIR", path |-> <<>>]
    ELSE [err |-> "ENOENT", path |-> <<>>]

Resolve(raw, fl, ds) == Walk(Split(raw), 1, <<>>, fl, ds)

\* the directory "/d" as a resolved path
DestPath == <<SubSeq(DestinationDir, 2, Len(DestinationDir))>>

IsPrefix(p, q) == Len(p) <= Len(q) /\ SubSeq(q, 1, Len(p)) = p

-----------------------------------------------------------------------------
(* The file-system calls the receiver makes (package os) *)

FsFail(fl, ds) == [ok |-> FALSE, files |-> fl, dirs |-> ds]

FsOk(fl, ds) == [ok |-> TRUE, files |-> fl, dirs |-> ds]

DirEmpty(p, fl, ds) ==
    /\ \A q \in DOMAIN fl : ~IsPrefix(p, q)
    /\ \A q \in ds : q = p \/ ~IsPrefix(p, q)

\* os.Stat(raw): "" when the entry exists, else the error
OsStat(raw, fl, ds) ==
    LET r == Resolve(raw, fl, ds) IN
    IF r.err # "" THEN r.err
    ELSE IF r.path \in DOMAIN fl \/ r.path \in ds THEN ""
    ELSE "ENOENT"

\* os.IsNotExist(err)
IsNotExist(err) == err = "ENOENT"

\* os.Remove(raw): unlinks a regular file, removes an empty directory
OsRemove(raw, fl, ds) ==
    LET r == Resolve(raw, fl, ds) IN
    IF r.err # "" THEN FsFail(fl, ds)
    ELSE IF r.path \in DOMAIN fl
         THEN FsOk([q \in DOMAIN fl \ {r.path} |-> fl[q]], ds)
    ELSE IF r.path \in ds /\ r.path # <<>> /\ DirEmpty(r.path, fl, ds)
         THEN FsOk(fl, ds \ {r.path})
    ELSE FsFail(fl, ds)

\* (mutation of OsRename: the file is copied to new and stays at old)
OsRenameKeepsOld(old, new, fl, ds) ==
    LET o == Resolve(old, fl, ds)
        n == Resolve(new, fl, ds)
    IN IF o.err # "" \/ n.err # "" \/ o.path \notin DOMAIN fl \/ n.path \in ds
       THEN FsFail(fl, ds)
       ELSE FsOk([q \in DOMAIN fl \cup {n.path} |->
                     IF q = n.path THEN fl[o.path] ELSE fl[q]], ds)

\* os.Rename(old, new): a regular file replaces a regular file at new; a
\* directory moves with everything below it
OsRename(old, new, fl, ds) ==
    LET o == Resolve(old, fl, ds)
        n == Resolve(new, fl, ds)
        Move(q) == IF IsPrefix(o.path, q)
                   THEN n.path \o SubSeq(q, Len(o.path) + 1, Len(q))
                   ELSE q
    IN
    IF o.err # "" \/ n.err # "" THEN FsFail(fl, ds)
    ELSE IF o.path \in DOMAIN fl
         THEN IF n.path \in ds THEN FsFail(fl, ds)
              ELSE FsOk([q \in (DOMAIN fl \ {o.path}) \cup {n.path} |->
                            IF q = n.path THEN fl[o.path] ELSE fl[q]], ds)
    ELSE IF o.path \in ds
         THEN IF \/ o.path = <<>>
                 \/ IsPrefix(o.path, n.path)
                 \/ n.path \in DOMAIN fl
                 \/ (n.path \in ds /\ ~DirEmpty(n.path, fl, ds))
              THEN FsFail(fl, ds)
              ELSE FsOk([q \in {Move(x) : x \in DOMAIN fl} |->
                            fl[CHOOSE x \in DOMAIN fl : Move(x) = q]],
                        {Move(x) : x \in ds})
    ELSE FsFail(fl, ds)

\* os.Create(raw): creates the file or truncates it
OsCreate(raw, fl, ds) ==
    LET r == Resolve(raw, fl, ds) IN
    IF r.err # "" \/ r.path \in ds THEN FsFail(fl, ds)
    ELSE FsOk([q \in DOMAIN fl \cup {r.path} |->
                  IF q = r.path THEN <<>> ELSE fl[q]], ds)

-----------------------------------------------------------------------------
(* Transfer engine: one run = one sender and one receiver process whose     *)
(* data channel has opened (both onEstablish handlers run once).            *)

\* the directories of the receiver's machine: "/", "/d", "/d/s"
InitialDirs == { <<>>, DestPath, Append(DestPath, <<115>>) }

\* the receiver's target path
RecvPath == JoinPath(DestinationDir, name)

\* the files earlier use of the directory has left at the chain indices idx
StaleFiles(n, idx) ==
    LET At(i) == Resolve(VersionPath(JoinPath(DestinationDir, n), i),
                         <<>>, InitialDirs)
        Good == {i \in idx : At(i).err = "" /\ At(i).path \notin InitialDirs}
    IN [q \in {At(i).path : i \in Good} |->
           OldContent(CHOOSE i \in Good : At(i).path = q)]

InitTransfer ==
    /\ SessionIdle
    /\ Versions \in 0..MaxVersions
    /\ frameName \in SourceNames
    /\ srcContent = <<>>
    /\ dirs = InitialDirs
    /\ \E idx \in SUBSET (0..(MaxVersions - 1)) :
         files = StaleFiles(frameName, idx)
    /\ wire = <<>>
    /\ wireState = "open"
    /\ spc = "idle"
    /\ rpc = "idle"
    /\ nameLen = 0
    /\ name = <<>>
    /\ shiftI = 0
    /\ recvErr = FALSE
    /\ sendErr = FALSE
    /\ run = 0
    /\ faults = 0
    /\ received = <<>>
    /\ snap = files
    /\ written = {}
    /\ initFiles = files

\* one transfer into an empty directory, with names at the limits of the
\* length byte
InitFraming ==
    /\ SessionIdle
    /\ Versions \in 0..MaxVersions
    /\ frameName \in EdgeNames
    /\ srcContent = <<>>
    /\ dirs = InitialDirs
    /\ files = <<>>
    /\ wire = <<>>
    /\ wireState = "open"
    /\ spc = "idle"
    /\ rpc = "idle"
    /\ nameLen = 0
    /\ name = <<>>
    /\ shiftI = 0
    /\ recvErr = FALSE
    /\ sendErr = FALSE
    /\ run = 0
    /\ faults = 0
    /\ received = <<>>
    /\ snap = files
    /\ written = {}
    /\ initFiles = files

\* no transfer runs: the data channel of the session has not opened
TransferIdle ==
    /\ Versions = 1
    /\ frameName = <<>>
    /\ srcContent = <<>>
    /\ dirs = InitialDirs
    /\ files = <<>>
    /\ wire = <<>>
    /\ wireState = "open"
    /\ spc = "idle"
    /\ rpc = "idle"
    /\ nameLen = 0
    /\ name = <<>>
    /\ shiftI = 0
    /\ recvErr = FALSE
    /\ sendErr = FALSE
    /\ run = 0
    /\ faults = 0
    /\ received = <<>>
    /\ snap = <<>>
    /\ written = {}
    /\ initFiles = <<>>

\* NewBackupper on the receiver: DestinationDir must exist and be a directory
DestinationDirValid(fl, ds) ==
    LET r == Resolve(DestinationDir, fl, ds) IN r.err = "" /\ r.path \in ds

\* Both processes are started, the constructors succeed, the data channel
\* opens and registerDataChannel's OnOpen calls establishHandler on each side.
StartRun ==
    /\ spc \in {"idle", "done"}
    /\ rpc \in {"idle", "done"}
    /\ run < MaxRuns
    /\ DestinationDirValid(files, dirs)
    /\ run' = run + 1
    /\ srcContent' \in SourceContents
    /\ wire' = <<>>
    /\ wireState' = "open"
    /\ spc' = "writeLen"
    /\ rpc' = "readLen"
    /\ nameLen' = 0
    /\ name' = <<>>
    /\ shiftI' = 0
    /\ recvErr' = FALSE
    /\ sendErr' = FALSE
    /\ snap' = files
    /\ UNCHANGED <<files, dirs, Versions, frameName, faults, received, written,
                   initFiles, sessionVars>>

\* The connection breaks: every later read or write on the channel fails.
ConnFail ==
    /\ wireState \in {"open", "closed"}
    /\ spc # "idle"
    /\ ~(spc = "done" /\ rpc = "done")
    /\ faults < MaxFaults
    /\ faults' = faults + 1
    /\ wireState' = "failed"
    /\ wire' = <<>>
    /\ UNCHANGED <<files, dirs, Versions, frameName, srcContent, spc, rpc,
                   nameLen, name, shiftI, recvErr, sendErr, run, received,
                   snap, written, initFiles, sessionVars>>

---- (* sender: sendSourceEntry, then Shutdown and the drain *)

\* (mutation of EncodeLength: the length is cut to seven bits)
EncodeLengthInt8(n) == Len(n) % (UInt8 \div 2)

\* writeFilename: length := uint8(len(b)); binary.Write(w, BigEndian, length)
EncodeLength(n) == Len(n) % UInt8

SenderUnchanged == UNCHANGED <<sessionVars, files, dirs, Versions, frameName,
                               srcContent,
                               rpc, nameLen, name, shiftI, recvErr, run,
                               received, snap, written, initFiles>>

SendLen ==
    /\ spc = "writeLen"
    /\ IF wireState = "open"
       THEN /\ wire' = Append(wire, EncodeLength(frameName))
            /\ spc' = "writeName"
            /\ UNCHANGED sendErr
       ELSE /\ sendErr' = TRUE
            /\ spc' = "shutdown"
            /\ UNCHANGED wire
    /\ UNCHANGED wireState
    /\ UNCHANGED faults
    /\ SenderUnchanged

\* writeFilename: binary.Write(w, BigEndian, b)
SendName ==
    /\ spc = "writeName"
    /\ IF wireState = "open"
       THEN /\ wire' = wire \o frameName
            /\ spc' = "writeFile"
            /\ UNCHANGED sendErr
       ELSE /\ sendErr' = TRUE
            /\ spc' = "shutdown"
            /\ UNCHANGED wire
    /\ UNCHANGED wireState
    /\ UNCHANGED faults
    /\ SenderUnchanged

\* writeFile: os.Open(path), which the environment may fail, then
\* io.Copy(w, f); the archive writers stream their bytes the same way
SendFile ==
    /\ spc = "writeFile"
    /\ \E fail \in BOOLEAN :
         /\ fail => faults < MaxFaults
         /\ faults' = IF fail THEN faults + 1 ELSE faults
         /\ IF ~fail /\ wireState = "open"
            THEN /\ wire' = wire \o srcContent
                 /\ UNCHANGED sendErr
            ELSE /\ sendErr' = TRUE
                 /\ UNCHANGED wire
    /\ spc' = "shutdown"
    /\ UNCHANGED wireState
    /\ SenderUnchanged

\* m.peer.Shutdown(): the sender's half of the channel is closed
SendShutdown ==
    /\ spc = "shutdown"
    /\ wireState' = IF wireState = "open" THEN "closed" ELSE wireState
    /\ spc' = "drain"
    /\ UNCHANGED <<wire, sendErr>>
    /\ UNCHANGED faults
    /\ SenderUnchanged

\* (mutation of SendDrain: completion is signalled without the read to EOF)
SendDrainWithoutEOF ==
    /\ spc = "drain"
    /\ spc' = "done"
    /\ UNCHANGED <<wire, wireState, sendErr>>
    /\ UNCHANGED faults
    /\ SenderUnchanged

\* io.ReadAll(m.peer) returns once the receiving side has gone away, then
\* m.shutdownChan <- struct{}{}
SendDrain ==
    /\ spc = "drain"
    /\ rpc = "done" \/ wireState = "failed"
    /\ spc' = "done"
    /\ UNCHANGED <<wire, wireState, sendErr>>
    /\ UNCHANGED faults
    /\ SenderUnchanged

---- (* receiver: receiveFile *)

RecvUnchanged == UNCHANGED <<sessionVars, Versions, frameName, srcContent, spc,
                             sendErr,
                             run, wireState, snap, initFiles>>

\* oldestVersion := int(m.cfg.Versions) - 1
OldestVersion == Versions - 1

\* binary.Read(m.peer, binary.BigEndian, &nameLen)
RecvReadLen ==
    /\ rpc = "readLen"
    /\ IF wireState # "failed" /\ Len(wire) >= 1
       THEN /\ nameLen' = Head(wire)
            /\ wire' = Tail(wire)
            /\ rpc' = "readName"
            /\ UNCHANGED recvErr
       ELSE /\ wireState # "open"
            /\ recvErr' = TRUE
            /\ rpc' = "done"
            /\ UNCHANGED <<nameLen, wire>>
    /\ UNCHANGED <<files, dirs, name, shiftI, faults, received, written>>
    /\ RecvUnchanged

\* name := make([]byte, nameLen); binary.Read(m.peer, binary.BigEndian, name)
RecvReadName ==
    /\ rpc = "readName"
    /\ IF wireState # "failed" /\ Len(wire) >= nameLen
       THEN /\ name' = SubSeq(wire, 1, nameLen)
            /\ wire' = SubSeq(wire, nameLen + 1, Len(wire))
            /\ rpc' = "shift"
            /\ shiftI' = OldestVersion
            /\ UNCHANGED recvErr
       ELSE /\ wireState # "open"
            /\ recvErr' = TRUE
            /\ rpc' = "done"
            /\ UNCHANGED <<name, wire, shiftI>>
    /\ UNCHANGED <<files, dirs, nameLen, faults, received, written>>
    /\ RecvUnchanged

\* (mutation of ShiftIteration: a renamed version skips one slot of the chain)
ShiftIterationSkipsSlot(path, i, fail, fl, ds) ==
    IF IsNotExist(OsStat(VersionPath(path, i), fl, ds)) THEN FsFail(fl, ds)
    ELSE IF fail THEN FsFail(fl, ds)
    ELSE IF i = OldestVersion THEN OsRemove(VersionPath(path, i), fl, ds)
    ELSE OsRename(VersionPath(path, i), path \o <<Dot>> \o Dec(i + 2), fl, ds)

\* (mutation of ShiftIteration: the oldest version is renamed like the others
\* instead of being removed)
ShiftIterationKeepsOldest(path, i, fail, fl, ds) ==
    IF IsNotExist(OsStat(VersionPath(path, i), fl, ds)) THEN FsFail(fl, ds)
    ELSE IF fail THEN FsFail(fl, ds)
    ELSE OsRename(VersionPath(path, i), path \o <<Dot>> \o Dec(i + 1), fl, ds)

\* (mutation of ShiftIteration: every version found is removed, none renamed)
ShiftIterationRemovesAll(path, i, fail, fl, ds) ==
    IF IsNotExist(OsStat(VersionPath(path, i), fl, ds)) THEN FsFail(fl, ds)
    ELSE IF fail THEN FsFail(fl, ds)
    ELSE OsRemove(VersionPath(path, i), fl, ds)

\* One iteration of the loop of shiftFileVersions for the index i, fail
\* telling whether the environment makes the remove or rename fail.
ShiftIteration(path, i, fail, fl, ds) ==
    LET oldVersionPath == VersionPath(path, i)
        newVersionPath == path \o <<Dot>> \o Dec(i + 1)
    IN
    IF IsNotExist(OsStat(oldVersionPath, fl, ds)) THEN FsFail(fl, ds)
    ELSE IF fail THEN FsFail(fl, ds)
    ELSE IF i = OldestVersion THEN OsRemove(oldVersionPath, fl, ds)
    ELSE OsRename(oldVersionPath, newVersionPath, fl, ds)

\* (mutation of ShiftStep: a failed remove or rename ends the rotation and
\* the receive)
ShiftStepStopsOnError ==
    /\ rpc = "shift"
    /\ shiftI >= 0
    /\ \E fail \in BOOLEAN :
         /\ fail => /\ faults < MaxFaults
                    /\ ~IsNotExist(OsStat(VersionPath(RecvPath, shiftI), files, dirs))
         /\ LET r == ShiftIteration(RecvPath, shiftI, fail, files, dirs) IN
              /\ files' = r.files
              /\ dirs' = r.dirs
              /\ written' = IF r.ok /\ shiftI # OldestVersion
                            THEN written \cup
                                 {Resolve(RecvPath \o <<Dot>> \o Dec(shiftI + 1),
                                          files, dirs).path}
                            ELSE written
         /\ faults' = IF fail THEN faults + 1 ELSE faults
         /\ rpc' = IF fail THEN "done" ELSE rpc
         /\ recvErr' = fail
    /\ shiftI' = shiftI - 1
    /\ UNCHANGED <<wire, nameLen, name, received>>
    /\ RecvUnchanged

\* for i := oldestVersion; i >= 0; i-- { ... }
ShiftStep ==
    /\ rpc = "shift"
    /\ shiftI >= 0
    /\ \E fail \in BOOLEAN :
         /\ fail => /\ faults < MaxFaults
                    /\ ~IsNotExist(OsStat(VersionPath(RecvPath, shiftI), files, dirs))
         /\ LET r == ShiftIteration(RecvPath, shiftI, fail, files, dirs) IN
              /\ files' = r.files
              /\ dirs' = r.dirs
              /\ written' = IF r.ok /\ shiftI # OldestVersion
                            THEN written \cup
                                 {Resolve(RecvPath \o <<Dot>> \o Dec(shiftI + 1),
                                          files, dirs).path}
                            ELSE written
         /\ faults' = IF fail THEN faults + 1 ELSE faults
    /\ shiftI' = shiftI - 1
    /\ UNCHANGED <<wire, rpc, nameLen, name, recvErr, received>>
    /\ RecvUnchanged

\* (mutation of SaveCreate: the file is created while the rotation still has
\* indices to process)
SaveCreateBeforeRotation ==
    /\ rpc = "shift"
    /\ \E fail \in BOOLEAN :
         /\ fail => faults < MaxFaults
         /\ LET r == IF fail THEN FsFail(files, dirs)
                     ELSE OsCreate(RecvPath, files, dirs) IN
              /\ files' = r.files
              /\ dirs' = r.dirs
              /\ rpc' = IF r.ok THEN "copy" ELSE "done"
              /\ recvErr' = ~r.ok
              /\ written' = IF r.ok
                            THEN written \cup {Resolve(RecvPath, files, dirs).path}
                            ELSE written
         /\ faults' = IF fail THEN faults + 1 ELSE faults
    /\ UNCHANGED <<wire, nameLen, name, shiftI, received>>
    /\ RecvUnchanged

\* saveFile: f, err := os.Create(path)
SaveCreate ==
    /\ rpc = "shift"
    /\ shiftI < 0
    /\ \E fail \in BOOLEAN :
         /\ fail => faults < MaxFaults
         /\ LET r == IF fail THEN FsFail(files, dirs)
                     ELSE OsCreate(RecvPath, files, dirs) IN
              /\ files' = r.files
              /\ dirs' = r.dirs
              /\ rpc' = IF r.ok THEN "copy" ELSE "done"
              /\ recvErr' = ~r.ok
              /\ written' = IF r.ok
                            THEN written \cup {Resolve(RecvPath, files, dirs).path}
                            ELSE written
         /\ faults' = IF fail THEN faults + 1 ELSE faults
    /\ UNCHANGED <<wire, nameLen, name, shiftI, received>>
    /\ RecvUnchanged

\* saveFile: io.Copy(f, m.peer), one Read and one Write of the loop, or its end
SaveCopy ==
    /\ rpc = "copy"
    /\ LET path == Resolve(RecvPath, files, dirs).path IN
       IF wireState # "failed" /\ Len(wire) >= 1
       THEN /\ files' = [files EXCEPT ![path] = @ \o wire]
            /\ wire' = <<>>
            /\ UNCHANGED <<rpc, recvErr, received>>
       ELSE /\ wireState # "open"
            /\ rpc' = "done"
            /\ recvErr' = (wireState = "failed")
            /\ received' = IF wireState = "failed" THEN received
                           ELSE Append(received,
                                       [name |-> name, content |-> files[path]])
            /\ UNCHANGED <<files, wire>>
    /\ UNCHANGED <<dirs, nameLen, name, shiftI, faults, written>>
    /\ RecvUnchanged

NextTransfer ==
    \/ StartRun
    \/ ConnFail
    \/ SendLen
    \/ SendName
    \/ SendFile
    \/ SendShutdown
    \/ SendDrain
    \/ RecvReadLen
    \/ RecvReadName
    \/ ShiftStep
    \/ SaveCreate
    \/ SaveCopy

SpecTransfer == InitTransfer /\ [][NextTransfer]_vars

SpecFraming == InitFraming /\ [][NextTransfer]_vars

-----------------------------------------------------------------------------
(* Properties of the transfer engine *)

\* the resolved path of version i of the file the receiver is handling
ChainPath(i) == Resolve(VersionPath(RecvPath, i), files, dirs).path

\* the chain indices at which the file set fl holds a version; one index
\* past every Versions value is examined
ChainIndices(fl) == {i \in 0..(MaxVersions + 1) : ChainPath(i) \in DOMAIN fl}

\* receiveFile has returned nil in this run
ReceiveCompleted == rpc = "done" /\ ~recvErr

\* every run so far has completed its receive and nothing has failed
AllReceivesClean == ReceiveCompleted /\ faults = 0 /\ Len(received) = run

\* C1 (version monotonicity): starting with no file in the directory and a
\* cap V >= 1, after k completed receives of files named F the files on disk
\* are exactly F, F.1, ..., F.(min(k,V)-1); F.i holds the content received i
\* receives earlier (F the most recent one); and every file that was there
\* before the last receive and survives it has its suffix increased by one.
C1_VersionMonotonicity ==
    (AllReceivesClean /\ initFiles = <<>> /\ Versions >= 1) =>
        LET k == Len(received)
            n == Min(k, Versions)
            after == ChainIndices(files)
            before == ChainIndices(snap)
        IN /\ after = 0..(n - 1)
           /\ DOMAIN files = {ChainPath(i) : i \in 0..(n - 1)}
           /\ \A i \in 0..(n - 1) : files[ChainPath(i)] = received[k - i].content
           /\ \A i \in before :
                 (i + 1 < Versions) =>
                       /\ i + 1 \in after
                       /\ files[ChainPath(i + 1)] = snap[ChainPath(i)]
           /\ \A j \in after \ {0} :
                 /\ j - 1 \in before
                 /\ files[ChainPath(j)] = snap[ChainPath(j - 1)]

\* C1 witness: the third receive of "f" with cap 2 has completed; the last two
\* contents differ and the first one has been dropped
C1_Witness ==
    /\ AllReceivesClean
    /\ initFiles = <<>>
    /\ Versions = 2
    /\ Len(received) = 3
    /\ name = <<102>>
    /\ received[1].content # received[2].content
    /\ received[2].content # received[3].content
    /\ ChainIndices(files) = {0, 1}

\* C2 (version cap), as claimed: in every state of a receive, also inside
\* rotation and while the new file is written, the number of existing files
\* among F, F.1, F.2, ... is at most V (V >= 1), provided the chain had at
\* most V members before the receive.
C2_VersionCap ==
    (rpc \notin {"idle", "readLen", "readName"} /\ Versions >= 1
       /\ Cardinality(ChainIndices(snap)) <= Versions)
    => Cardinality(ChainIndices(files)) <= Versions

\* C2, amended: for V >= 1, in every state of a receive the number of
\* existing files among F, F.1, F.2, ... is at most V, provided that before
\* the receive no file F.i with i >= V exists.
C2_VersionCapWithinSlots ==
    (rpc \notin {"idle", "readLen", "readName"} /\ Versions >= 1) =>
        LET slots == {<<i, ChainPath(i)>> : i \in 0..(MaxVersions + 1)}
        IN (\A s \in slots : s[2] \in DOMAIN snap => s[1] < Versions)
              => Cardinality({s \in slots : s[2] \in DOMAIN files})
                    <= Versions

\* C2 witness: a full chain of two versions has been rotated and the new file
\* is being written
C2_Witness ==
    /\ rpc = "copy"
    /\ Versions = 2
    /\ ChainIndices(snap) = {0, 1}
    /\ ChainIndices(files) = {0, 1}
    /\ files[ChainPath(1)] = snap[ChainPath(0)]

\* the steps of the sender from one position to the next: header (length,
\* name), content, Shutdown, drain, completion; a failed write leads to
\* Shutdown at once
SenderStep(from, to) ==
    \/ from \in {"idle", "done"} /\ to = "writeLen"
    \/ from = "writeLen" /\ to = "writeName" /\ ~sendErr'
    \/ from = "writeName" /\ to = "writeFile" /\ ~sendErr'
    \/ from = "writeFile" /\ to = "shutdown"
    \/ from \in {"writeLen", "writeName"} /\ to = "shutdown" /\ sendErr'
    \/ from = "shutdown" /\ to = "drain"
    \/ from = "drain" /\ to = "done"

\* where the sender stands: its channel is half-closed before it drains, it
\* has completed only after the inbound stream has ended, and after a failed
\* write it is at Shutdown or past it
SenderPosition ==
    /\ spc \in {"drain", "done"} => wireState # "open"
    /\ spc = "done" => (rpc = "done" \/ wireState = "failed")
    /\ sendErr => spc \in {"shutdown", "drain", "done"}
    /\ spc \in {"writeLen", "writeName", "writeFile"} => ~sendErr

\* C23 (sender completion order): on the sender the transfer engine writes
\* the header, then the content, then half-closes the data channel, then
\* reads the inbound stream until EOF, and only then signals completion;
\* when writing fails, it still half-closes, drains and signals completion.
C23_SenderCompletionOrder ==
    /\ []SenderPosition
    /\ [][/\ spc' # spc => SenderStep(spc, spc')
          /\ (wire' # wire /\ Len(wire') > Len(wire))
                => spc \in {"writeLen", "writeName", "writeFile"}
          /\ (spc = "writeFile" /\ spc' = "shutdown" /\ ~sendErr')
                => wire' = wire \o srcContent]_vars

\* C23 witness: the header has been written, the content could not be read,
\* and the sender has still half-closed the channel, read to EOF and
\* signalled completion
C23_Witness ==
    /\ spc = "done"
    /\ sendErr
    /\ wireState = "closed"
    /\ rpc = "done"
    /\ name = frameName

\* the indices S form an initial segment 0, 1, ..., n-1: the chain has no gap
GapFree(S) == \A i \in S : \A j \in 0..i : j \in S

\* The versions of the file set fl are the versions of the file set old in
\* the same order of age: every version of fl with a suffix holds the content
\* of a version of old, and a higher suffix holds the content of a higher
\* suffix of old. The file without suffix is the one being received.
AgeOrdered(fl, old) ==
    LET after == ChainIndices(fl) \ {0}
        before == ChainIndices(old)
    IN \E g \in [after -> before] :
          /\ \A j \in after : fl[ChainPath(j)] = old[ChainPath(g[j])]
          /\ \A j, k \in after : j < k => g[j] < g[k]

\* the receive of this run is past rotation: saveFile has been called
PastRotation == rpc \in {"copy", "done"} /\ (rpc = "copy" \/ shiftI < 0)

RotationReturned == rpc = "shift" /\ shiftI < 0

Rotating == rpc = "shift" /\ shiftI >= 0

\* saveFile runs: os.Create is about to be called or io.Copy is copying
Saving == (rpc = "shift" /\ shiftI < 0) \/ rpc = "copy"

\* the step is one of the receiver
ReceiverSteps == rpc' # rpc \/ shiftI' # shiftI \/ files' # files

\* the paths whose file is created, removed or changed by the step
Touched ==
    {q \in DOMAIN files \cup DOMAIN files' :
        \/ q \notin DOMAIN files
        \/ q \notin DOMAIN files'
        \/ files'[q] # files[q]}

\* C24 (rotation before write): on the receiver every remove and rename of
\* version rotation has finished before the target path is created and before
\* the first content byte is written to it: the file is created only when the
\* loop has gone through every index, content is written only after the
\* creation, and from the creation on no file is removed or renamed.
C24_RotationBeforeWrite ==
    /\ [](rpc = "copy" => shiftI < 0)
    /\ [][/\ (rpc # "copy" /\ rpc' = "copy") => (rpc = "shift" /\ shiftI < 0)
          /\ (Rotating /\ ReceiverSteps)
                => (rpc' = "shift" /\ shiftI' = shiftI - 1)
          /\ Saving => /\ DOMAIN files \subseteq DOMAIN files'
                       /\ Cardinality(Touched) <= 1
                       /\ shiftI' = shiftI
          /\ (\E q \in Touched :
                  /\ q \in DOMAIN files'
                  /\ files'[q] \notin {<<>>} \cup {files[o] : o \in DOMAIN files})
                => rpc = "copy"]_vars

\* C24 witness: under a cap of 2 the old F has been renamed to F.1 and the
\* received content is in the new F
C24_Witness ==
    /\ rpc = "copy"
    /\ Versions = 2
    /\ ChainPath(0) \in DOMAIN snap
    /\ ChainPath(1) \in DOMAIN files
    /\ files[ChainPath(1)] = snap[ChainPath(0)]
    /\ files[ChainPath(0)] = srcContent
    /\ srcContent # <<>>

\* C25 (best-effort rotation): a failure of a remove or rename of version
\* rotation stops neither the rotation nor the receive: the loop goes on to
\* the next index without an error of the receive, the file is created only
\* after the last index, and a receive that returns nil has stored the content
\* the sender wrote at the target path.
C25_BestEffortRotation ==
    /\ [](ReceiveCompleted /\ ~sendErr
             => received[Len(received)].content = srcContent)
    /\ [](rpc = "copy" => shiftI < 0)
    /\ [][(Rotating /\ faults' > faults /\ wireState' = wireState
                     /\ sendErr' = sendErr)
             => /\ rpc' = "shift"
                /\ shiftI' = shiftI - 1
                /\ recvErr' = recvErr
                /\ files' = files]_vars

\* C25 witness: under a cap of 2 the rename of the old F has failed, F.1 does
\* not exist, and the receive has returned nil with the content in F
C25_Witness ==
    /\ ReceiveCompleted
    /\ run = 1
    /\ faults > 0
    /\ wireState = "closed"
    /\ Versions = 2
    /\ ChainPath(0) \in DOMAIN snap
    /\ ChainPath(1) \notin DOMAIN files
    /\ files[ChainPath(0)] = srcContent
    /\ srcContent # <<>>

\* C3 (framing round-trip): for a name n of 1..255 bytes and any content c,
\* when the sender has written the length byte, n, c and half-closed, the
\* receiver decodes exactly the name n and stores exactly the content c.
C3_FramingRoundTrip ==
    (ReceiveCompleted /\ ~sendErr /\ Len(frameName) \in 1..(UInt8 - 1)) =>
        /\ nameLen = Len(frameName)
        /\ name = frameName
        /\ received[Len(received)].content = srcContent
        /\ wire = <<>>

\* C3 witness: a 255-byte name and a non-empty content have gone through
C3_Witness ==
    /\ ReceiveCompleted
    /\ ~sendErr
    /\ Len(frameName) = UInt8 - 1
    /\ name = frameName
    /\ srcContent # <<>>
    /\ received[Len(received)].content = srcContent

\* a name that is not a single path segment
NotSingleSegment(n) ==
    \/ \E i \in 1..Len(n) : n[i] = Slash
    \/ \E i \in 1..(Len(n) - 1) : n[i] = Dot /\ n[i + 1] = Dot

\* C10 (path-segment check): a received name that contains a path separator
\* or ".." is rejected: no rotation is run, no file is created or modified,
\* so every file the receiver writes is a direct child of DestinationDir.
C10_PathSegmentCheck ==
    /\ NotSingleSegment(name) => (rpc \notin {"shift", "copy"} /\ files = snap)
    /\ \A q \in written : Parent(q) = DestPath

-----------------------------------------------------------------------------
(* Signalling mailbox: names, contents and the service's requests           *)

\* FileIoConfig.SessionID of both instances: "u"
SessionID == <<"u">>

\* FileIoConfig.InstanceID of the two instances: "x1" and "x2"
InstanceID == [p \in Peers |-> IF p = "A" THEN <<"x", "1">> ELSE <<"x", "2">>]

fileIoFileContentTypePing == <<"p", "i", "n", "g">>

fileIoFileContentTypeSDP == <<"s", "d", "p">>

fileIoFileContentTypeCandidate == <<"c", "a", "n", "d", "i", "d", "a", "t", "e">>

\* fmt.Sprintf("%s_%s_%s.json", session, kind, instance)
FileName(session, kind, instance) ==
    session \o <<"_">> \o kind \o <<"_">> \o instance
            \o <<".", "j", "s", "o", "n">>

\* fmt.Sprintf("%s_%s", s.cfg.SessionID, fileIoFileContentTypePing)
PingPattern == SessionID \o <<"_">> \o fileIoFileContentTypePing

\* strings.Contains(s, sub)
Contains(s, sub) ==
    \E i \in 0..(Len(s) - Len(sub)) : SubSeq(s, i + 1, i + Len(sub)) = sub

\* the nodes of the entries whose name contains the pattern, in order
RECURSIVE SelectNodes(_, _)
SelectNodes(mb, pattern) ==
    IF mb = <<>> THEN <<>>
    ELSE LET rest == SelectNodes(Tail(mb), pattern)
         IN IF Contains(Head(mb).name, pattern)
            THEN <<[key |-> Head(mb).key, name |-> Head(mb).name]>> \o rest
            ELSE rest

\* (mutation of FindFiles: the search pattern is ignored)
FindFilesAnyName(pattern, mb) ==
    [i \in 1..Len(mb) |-> [key |-> mb[i].key, name |-> mb[i].name]]

\* (mutation of FindFiles: the entries are answered newest first)
FindFilesNewestFirst(pattern, mb) ==
    LET found == SelectNodes(mb, pattern)
    IN [i \in 1..Len(found) |-> found[Len(found) + 1 - i]]

\* findFiles: GET /?search=pattern&sort=created:asc answers with the entries
\* whose name matches, oldest first
FindFiles(pattern, mb) == SelectNodes(mb, pattern)

\* uploadFile: POST / stores a new entry under a fresh key
UploadFile(mb, key, fname, content, who) ==
    Append(mb, [key |-> key, name |-> fname, content |-> content,
                author |-> who])

\* the service holds an entry with this key
HasKey(mb, key) == \E i \in 1..Len(mb) : mb[i].key = key

RECURSIVE WithoutKey(_, _)
WithoutKey(mb, key) ==
    IF mb = <<>> THEN <<>>
    ELSE IF Head(mb).key = key THEN Tail(mb)
         ELSE <<Head(mb)>> \o WithoutKey(Tail(mb), key)

\* (mutation of DeleteFile: the service keeps the entry)
DeleteFileKeeps(mb, key) == mb

\* deleteFile: DELETE /key removes the entry; when there is none the service
\* answers with an error status and nothing changes
DeleteFile(mb, key) == WithoutKey(mb, key)

\* the content of a ping, of an SDP and of a candidate entry
PingContent == [type |-> fileIoFileContentTypePing, payload |-> <<>>]

SDPContent(payload) == [type |-> fileIoFileContentTypeSDP, payload |-> payload]

CandidateContent(payload) ==
    [type |-> fileIoFileContentTypeCandidate, payload |-> payload]

\* an entry left on the service by an earlier process
StaleEntry(key, session, kind, instance) ==
    [key |-> key, name |-> FileName(session, kind, instance),
     content |-> [type |-> kind, payload |-> <<>>], author |-> "earlier"]

\* what the service can hold when the first instance starts: nothing, a ping
\* of another session "v", a ping an earlier process of this session has left
\* (with the InstanceID "x3", or with the InstanceID "x1" of instance A)
StaleMailboxes ==
    { <<>>,
      <<StaleEntry(0, <<"v">>, fileIoFileContentTypePing, <<"x", "3">>)>>,
      <<StaleEntry(0, SessionID, fileIoFileContentTypePing, <<"x", "3">>)>>,
      <<StaleEntry(0, SessionID, fileIoFileContentTypePing, InstanceID["A"])>> }

-----------------------------------------------------------------------------
(* Role election: two instances call WebRTC.Dial, which calls FileIo.Ping.   *)
(* One mailbox request is one step; the steps of the instances interleave.  *)

InitPing ==
    /\ TransferIdle
    /\ LockIdle
    /\ NegIdle
    /\ CleanIdle
    /\ BackoffIdle
    /\ SetupIdle
    /\ CandIdle
    /\ DoneIdle
    /\ PollIdle
    /\ RateIdle
    /\ mailbox \in StaleMailboxes
    /\ nextKey = 1
    /\ dpc = [p \in Peers |-> "init"]
    /\ nodes = [p \in Peers |-> <<>>]
    /\ pingResult = [p \in Peers |-> ""]
    /\ dialResult = [p \in Peers |-> ""]
    /\ onDataChannel = [p \in Peers |-> ""]
    /\ reqFaults = 0
    /\ sigLog = <<>>
    /\ startedAfter = [p \in Peers |-> {}]
    /\ initMailbox = mailbox

\* one line of the service's log: the request, its author, the file name it
\* is about and the nodes it has listed
Served(op, by, fname, listed) ==
    [op |-> op, by |-> by, name |-> fname, nodes |-> listed]

\* a request may fail (transport error or a status outside the allow-list)
\* while the budget of failures lasts
MayFail(fail) == fail => reqFaults < MaxReqFaults

\* runBackupMode calls a.peer.Dial(), Dial calls p.signal.Ping()
DialStart(p) ==
    /\ dpc[p] = "init"
    /\ dpc' = [dpc EXCEPT ![p] = "find"]
    /\ startedAfter' = [startedAfter EXCEPT
                          ![p] = {q \in Peers : pingResult[q] # ""}]
    /\ UNCHANGED <<mailbox, nextKey, nodes, pingResult, dialResult,
                   onDataChannel, reqFaults, sigLog, initMailbox>>
    /\ UNCHANGED <<transferVars, lockVars, negVars, cleanVars, backoffVars, setupVars, candVars, doneVars, pollVars, rateVars>>

\* Ping: files, err := s.findPing()
PingFind(p) ==
    /\ dpc[p] = "find"
    /\ \E fail \in BOOLEAN :
         /\ MayFail(fail)
         /\ IF fail
            THEN /\ reqFaults' = reqFaults + 1
                 /\ pingResult' = [pingResult EXCEPT ![p] = "error"]
                 /\ dialResult' = [dialResult EXCEPT ![p] = "error"]
                 /\ dpc' = [dpc EXCEPT ![p] = "done"]
                 /\ UNCHANGED <<nodes, sigLog>>
            ELSE LET found == FindFiles(PingPattern, mailbox)
                 IN /\ nodes' = [nodes EXCEPT ![p] = found]
                    /\ dpc' = [dpc EXCEPT
                                 ![p] = IF Len(found) = 0 THEN "upload"
                                                          ELSE "delete"]
                    /\ sigLog' = Append(sigLog, Served("find", p, <<>>, found))
                    /\ UNCHANGED <<reqFaults, pingResult, dialResult>>
    /\ UNCHANGED <<mailbox, nextKey, onDataChannel, startedAfter, initMailbox>>
    /\ UNCHANGED <<transferVars, lockVars, negVars, cleanVars, backoffVars, setupVars, candVars, doneVars, pollVars, rateVars>>

\* (mutation of PingUpload: Ping returns nil after it has uploaded its ping)
PingUploadReturnsNil(p) ==
    /\ dpc[p] = "upload"
    /\ \E fail \in BOOLEAN :
         /\ MayFail(fail)
         /\ IF fail
            THEN /\ reqFaults' = reqFaults + 1
                 /\ pingResult' = [pingResult EXCEPT ![p] = "error"]
                 /\ dialResult' = [dialResult EXCEPT ![p] = "error"]
                 /\ dpc' = [dpc EXCEPT ![p] = "done"]
                 /\ UNCHANGED <<mailbox, nextKey, sigLog>>
            ELSE LET fname == FileName(SessionID, fileIoFileContentTypePing,
                                       InstanceID[p])
                 IN /\ mailbox' = UploadFile(mailbox, nextKey, fname,
                                             PingContent, p)
                    /\ nextKey' = nextKey + 1
                    /\ pingResult' = [pingResult EXCEPT ![p] = "found"]
                    /\ dpc' = [dpc EXCEPT ![p] = "offer"]
                    /\ sigLog' = Append(sigLog, Served("upload", p, fname, <<>>))
                    /\ UNCHANGED <<reqFaults, dialResult>>
    /\ UNCHANGED <<nodes, onDataChannel, startedAfter, initMailbox>>
    /\ UNCHANGED <<transferVars, lockVars, negVars, cleanVars, backoffVars, setupVars, candVars, doneVars, pollVars, rateVars>>

\* Ping: len(files.Nodes) == 0: s.uploadPing(), return ErrNoCandidatesFound
PingUpload(p) ==
    /\ dpc[p] = "upload"
    /\ \E fail \in BOOLEAN :
         /\ MayFail(fail)
         /\ IF fail
            THEN /\ reqFaults' = reqFaults + 1
                 /\ pingResult' = [pingResult EXCEPT ![p] = "error"]
                 /\ dialResult' = [dialResult EXCEPT ![p] = "error"]
                 /\ dpc' = [dpc EXCEPT ![p] = "done"]
                 /\ UNCHANGED <<mailbox, nextKey, sigLog>>
            ELSE LET fname == FileName(SessionID, fileIoFileContentTypePing,
                                       InstanceID[p])
                 IN /\ mailbox' = UploadFile(mailbox, nextKey, fname,
                                             PingContent, p)
                    /\ nextKey' = nextKey + 1
                    /\ pingResult' = [pingResult EXCEPT ![p] = "notFound"]
                    /\ dpc' = [dpc EXCEPT ![p] = "waitOffer"]
                    /\ sigLog' = Append(sigLog, Served("upload", p, fname, <<>>))
                    /\ UNCHANGED <<reqFaults, dialResult>>
    /\ UNCHANGED <<nodes, onDataChannel, startedAfter, initMailbox>>
    /\ UNCHANGED <<transferVars, lockVars, negVars, cleanVars, backoffVars, setupVars, candVars, doneVars, pollVars, rateVars>>

\* Dial: errors.Is(err, ErrNoCandidatesFound): return p.waitOffer()
WaitOffer(p) ==
    /\ dpc[p] = "waitOffer"
    /\ onDataChannel' = [onDataChannel EXCEPT ![p] = "incoming"]
    /\ dialResult' = [dialResult EXCEPT ![p] = "ok"]
    /\ dpc' = [dpc EXCEPT ![p] = "done"]
    /\ UNCHANGED <<mailbox, nextKey, nodes, pingResult, reqFaults, sigLog,
                   startedAfter, initMailbox>>
    /\ UNCHANGED <<transferVars, lockVars, negVars, cleanVars, backoffVars, setupVars, candVars, doneVars, pollVars, rateVars>>

\* Ping: one iteration of "for _, node := range files.Nodes": deleteFile, an
\* error is logged; after the last one Ping returns nil
PingDelete(p) ==
    /\ dpc[p] = "delete"
    /\ LET node == Head(nodes[p])
           last == Len(nodes[p]) = 1
       IN /\ \E fail \in BOOLEAN :
               /\ MayFail(fail)
               /\ IF fail
                  THEN /\ reqFaults' = reqFaults + 1
                       /\ UNCHANGED <<mailbox, sigLog>>
                  ELSE /\ mailbox' = DeleteFile(mailbox, node.key)
                       /\ sigLog' = Append(sigLog,
                                       Served("delete", p, node.name, <<>>))
                       /\ UNCHANGED reqFaults
          /\ nodes' = [nodes EXCEPT ![p] = Tail(nodes[p])]
          /\ pingResult' = [pingResult EXCEPT
                              ![p] = IF last THEN "found" ELSE @]
          /\ dpc' = [dpc EXCEPT ![p] = IF last THEN "offer" ELSE "delete"]
    /\ UNCHANGED <<nextKey, dialResult, onDataChannel, startedAfter,
                   initMailbox>>
    /\ UNCHANGED <<transferVars, lockVars, negVars, cleanVars, backoffVars, setupVars, candVars, doneVars, pollVars, rateVars>>

\* the session description the offerer publishes
OfferPayload == <<"o", "f", "f", "e", "r">>

\* Dial: return p.offer(): CreateDataChannel, registerDataChannel,
\* CreateOffer, SetLocalDescription, p.signal.SendSDP(payload)
Offer(p) ==
    /\ dpc[p] = "offer"
    /\ onDataChannel' = [onDataChannel EXCEPT ![p] = "created"]
    /\ dpc' = [dpc EXCEPT ![p] = "done"]
    /\ \E fail \in BOOLEAN :
         /\ MayFail(fail)
         /\ IF fail
            THEN /\ reqFaults' = reqFaults + 1
                 /\ dialResult' = [dialResult EXCEPT ![p] = "error"]
                 /\ UNCHANGED <<mailbox, nextKey, sigLog>>
            ELSE LET fname == FileName(SessionID, fileIoFileContentTypeSDP,
                                       InstanceID[p])
                 IN /\ mailbox' = UploadFile(mailbox, nextKey, fname,
                                             SDPContent(OfferPayload), p)
                    /\ nextKey' = nextKey + 1
                    /\ dialResult' = [dialResult EXCEPT ![p] = "ok"]
                    /\ sigLog' = Append(sigLog,
                                    Served("upload", p, fname, <<>>))
                    /\ UNCHANGED reqFaults
    /\ UNCHANGED <<nodes, pingResult, startedAfter, initMailbox>>
    /\ UNCHANGED <<transferVars, lockVars, negVars, cleanVars, backoffVars, setupVars, candVars, doneVars, pollVars, rateVars>>

NextPing ==
    \/ \E p \in Peers : DialStart(p)
    \/ \E p \in Peers : PingFind(p)
    \/ \E p \in Peers : PingUpload(p)
    \/ \E p \in Peers : WaitOffer(p)
    \/ \E p \in Peers : PingDelete(p)
    \/ \E p \in Peers : Offer(p)

SpecPing == InitPing /\ [][NextPing]_vars

-----------------------------------------------------------------------------
(* Properties of the role election *)

\* both instances' Ping has returned
PingsReturned == \A p \in Peers : pingResult[p] # ""

\* both instances' Dial has returned
DialsReturned == \A p \in Peers : dialResult[p] # ""

\* the mailbox held no ping of the session before the first request
NoPingAtStart ==
    \A i \in 1..Len(initMailbox) : ~Contains(initMailbox[i].name, PingPattern)

\* the service has served a find of one instance after a ping upload of the
\* other one
FindAfterUpload ==
    \E i, j \in 1..Len(sigLog) :
        /\ i < j
        /\ sigLog[i].op = "upload"
        /\ sigLog[j].op = "find"
        /\ sigLog[i].by # sigLog[j].by

\* one instance is offerer (Ping reported found) and the other is answerer
\* (Ping reported that no candidates were found)
OneOffererOneAnswerer ==
    \E p, q \in Peers :
        /\ p # q
        /\ pingResult[p] = "found"
        /\ pingResult[q] = "notFound"

\* C4 (role election mutual exclusion), as claimed: when two instances run
\* Ping on the same SessionID, in every interleaving of their find, upload
\* and delete requests exactly one becomes offerer and the other answerer.
C4_RoleElectionMutualExclusion ==
    (PingsReturned /\ reqFaults = 0 /\ NoPingAtStart) => OneOffererOneAnswerer

\* C4, amended: when two instances run Ping on the same SessionID, the
\* mailbox holds no ping of the session at the start and every request
\* succeeds, then exactly one becomes offerer and the other answerer if the
\* find of one instance is served after the ping upload of the other;
\* if both finds are served before either upload, both become answerer and
\* neither offerer.
C4_RoleElectionBySequencing ==
    (PingsReturned /\ reqFaults = 0 /\ NoPingAtStart) =>
        IF FindAfterUpload
        THEN OneOffererOneAnswerer
        ELSE \A p \in Peers : pingResult[p] = "notFound"

\* C4 witness: the two Pings overlap (neither had returned when the other
\* started), every request has succeeded, and the election has produced one
\* offerer and one answerer
C4_Witness ==
    /\ PingsReturned
    /\ reqFaults = 0
    /\ NoPingAtStart
    /\ \A p \in Peers : startedAfter[p] = {}
    /\ \A p \in Peers : dpc[p] # "init"
    /\ FindAfterUpload
    /\ OneOffererOneAnswerer

\* instance p has uploaded an entry of this kind under its own name
Uploaded(p, kind) ==
    \E i \in 1..Len(sigLog) :
        /\ sigLog[i].op = "upload"
        /\ sigLog[i].by = p
        /\ sigLog[i].name = FileName(SessionID, kind, InstanceID[p])

\* the nodes the find of instance q has listed
Listed(q) ==
    LET i == CHOOSE i \in 1..Len(sigLog) :
                 sigLog[i].op = "find" /\ sigLog[i].by = q
    IN sigLog[i].nodes

\* C5 (sequential role election): when the mailbox holds no ping of the
\* session, every request succeeds and the Ping of instance p has returned
\* before the Ping of instance q starts, then p has uploaded a ping under its
\* own InstanceID and is answerer (handler for an incoming data channel set,
\* no SDP sent), and q has found that ping, has deleted every entry its find
\* listed and is offerer (data channel created, offer uploaded within Dial).
C5_SequentialRoleElection ==
    \A p, q \in Peers :
        (/\ p # q
         /\ DialsReturned
         /\ reqFaults = 0
         /\ NoPingAtStart
         /\ p \in startedAfter[q])
        =>
        /\ pingResult[p] = "notFound"
        /\ Uploaded(p, fileIoFileContentTypePing)
        /\ onDataChannel[p] = "incoming"
        /\ ~Uploaded(p, fileIoFileContentTypeSDP)
        /\ pingResult[q] = "found"
        /\ \E n \in 1..Len(Listed(q)) :
              Listed(q)[n].name = FileName(SessionID,
                                           fileIoFileContentTypePing,
                                           InstanceID[p])
        /\ \A n \in 1..Len(Listed(q)) : ~HasKey(mailbox, Listed(q)[n].key)
        /\ FindFiles(PingPattern, mailbox) = <<>>
        /\ onDataChannel[q] = "created"
        /\ Uploaded(q, fileIoFileContentTypeSDP)
        /\ \E i \in 1..Len(mailbox) :
              /\ mailbox[i].author = q
              /\ mailbox[i].content = SDPContent(OfferPayload)
        /\ dialResult[p] = "ok"
        /\ dialResult[q] = "ok"

\* C5 witness: A's Dial had returned before B's started; A is answerer, B is
\* offerer and B's offer is in the mailbox
C5_Witness ==
    /\ DialsReturned
    /\ reqFaults = 0
    /\ NoPingAtStart
    /\ startedAfter["B"] = {"A"}
    /\ pingResult["A"] = "notFound"
    /\ pingResult["B"] = "found"
    /\ Uploaded("B", fileIoFileContentTypeSDP)

\* the instances whose Ping has returned nil: Dial goes on to offer
Offerers == {p \in Peers : pingResult[p] = "found"}

\* the uploads of a session description the service has served
OfferUploads ==
    {i \in 1..Len(sigLog) :
        /\ sigLog[i].op = "upload"
        /\ Contains(sigLog[i].name, fileIoFileContentTypeSDP)}

\* C26 (at most one offerer): starting from a mailbox with no ping of the
\* session, in every interleaving of the two instances' Ping requests, with
\* or without failing requests, at most one instance becomes offerer, at most
\* one creates the data channel and at most one offer is uploaded.
C26_AtMostOneOfferer ==
    NoPingAtStart =>
        /\ Cardinality(Offerers) <= 1
        /\ Cardinality({p \in Peers : dpc[p] = "offer"}) <= 1
        /\ Cardinality({p \in Peers : onDataChannel[p] = "created"}) <= 1
        /\ Cardinality(OfferUploads) <= 1

\* C26 witness: the two Dials overlap, one instance has found the other's
\* ping and uploaded its offer, the other waits for the offer
C26_Witness ==
    /\ NoPingAtStart
    /\ \A p \in Peers : startedAfter[p] = {}
    /\ \E p, q \in Peers :
         /\ p # q
         /\ Offerers = {p}
         /\ onDataChannel[p] = "created"
         /\ dialResult[p] = "ok"
         /\ onDataChannel[q] = "incoming"
    /\ Cardinality(OfferUploads) = 1

-----------------------------------------------------------------------------
(* Candidate trickling in one peer transport.  Two goroutines run: the      *)
(* polling loop, which calls onSignalSDP for a downloaded description, and  *)
(* the ICE agent's, which calls onConnICECandidate once per candidate.      *)
(* Candidates are numbered in the order of their emission.                  *)

\* Dial has returned: the offerer has set its offer as local description
\* (which starts the gathering), the answerer has set nothing yet
InitCand ==
    /\ TransferIdle
    /\ LockIdle
    /\ NegIdle
    /\ CleanIdle
    /\ BackoffIdle
    /\ SetupIdle
    /\ PingIdle
    /\ DoneIdle
    /\ PollIdle
    /\ RateIdle
    /\ dialRole \in {"offerer", "answerer"}
    /\ remoteDescription = ""
    /\ localDescription = IF dialRole = "offerer" THEN "offer" ELSE ""
    /\ candidates = <<>>
    /\ candidatesMx = ""
    /\ emitted = 0
    /\ gatherDone = FALSE
    /\ published = <<>>
    /\ sdpPc = "idle"
    /\ sdpType = ""
    /\ sdpSeen = 0
    /\ flushI = 0
    /\ ipc = "idle"
    /\ iceCur = 0
    /\ connClosed = FALSE
    /\ installedAt = -1

CandUnchanged == UNCHANGED <<transferVars, lockVars, negVars, cleanVars, backoffVars, setupVars, doneVars, pollVars, rateVars,
                             nextKey, dpc, nodes, pingResult, dialResult,
                             onDataChannel, sigLog, startedAfter, initMailbox,
                             dialRole>>

\* the agent emits its next candidate and calls onConnICECandidate with it
IceEmit ==
    /\ ipc = "idle"
    /\ localDescription # ""
    /\ ~gatherDone
    /\ ~connClosed
    /\ emitted < MaxCandidates
    /\ emitted' = emitted + 1
    /\ iceCur' = emitted + 1
    /\ ipc' = "lock"
    /\ UNCHANGED <<remoteDescription, localDescription, candidates,
                   candidatesMx, gatherDone, published, sdpPc, sdpType,
                   sdpSeen, flushI, connClosed, mailbox, reqFaults, installedAt>>
    /\ CandUnchanged

\* the agent ends the gathering: onConnICECandidate(nil) returns at once
IceGatheringComplete ==
    /\ ipc = "idle"
    /\ localDescription # ""
    /\ ~gatherDone
    /\ gatherDone' = TRUE
    /\ UNCHANGED <<remoteDescription, localDescription, candidates,
                   candidatesMx, emitted, published, sdpPc, sdpType, sdpSeen,
                   flushI, ipc, iceCur, connClosed, mailbox, reqFaults, installedAt>>
    /\ CandUnchanged

\* onConnICECandidate: p.candidatesMx.Lock()
IceLock ==
    /\ ipc = "lock"
    /\ candidatesMx = ""
    /\ candidatesMx' = "ice"
    /\ ipc' = "locked"
    /\ UNCHANGED <<remoteDescription, localDescription, candidates, emitted,
                   gatherDone, published, sdpPc, sdpType, sdpSeen, flushI,
                   iceCur, connClosed, mailbox, reqFaults, installedAt>>
    /\ CandUnchanged

\* signalSendCandidate: nothing is sent on a closed connection; otherwise
\* p.signal.SendCandidate(payload) uploads the candidate or fails
SignalSendCandidate(c, closed, fail, pub, mb, key) ==
    IF closed
    THEN [published |-> pub, mailbox |-> mb, sent |-> FALSE, err |-> FALSE]
    ELSE IF fail
    THEN [published |-> pub, mailbox |-> mb, sent |-> FALSE, err |-> TRUE]
    ELSE [published |-> Append(pub, c),
          mailbox |-> UploadFile(mb, key,
                          FileName(SessionID, fileIoFileContentTypeCandidate,
                                   InstanceID["A"]),
                          CandidateContent(c), "A"),
          sent |-> TRUE, err |-> FALSE]

\* (mutation of IceHandle: the candidate is appended to the buffer whether or
\* not there is a remote description)
IceHandleBuffersAlways ==
    /\ ipc = "locked"
    /\ candidates' = Append(candidates, iceCur)
    /\ candidatesMx' = ""
    /\ ipc' = "idle"
    /\ UNCHANGED <<remoteDescription, localDescription, emitted, gatherDone,
                   published, sdpPc, sdpType, sdpSeen, flushI, iceCur,
                   connClosed, mailbox, reqFaults, installedAt>>
    /\ CandUnchanged

\* onConnICECandidate under the lock: without a remote description the
\* candidate is appended to p.candidates, with one it is sent; the deferred
\* Unlock runs
IceHandle ==
    /\ ipc = "locked"
    /\ IF remoteDescription = ""
       THEN /\ candidates' = Append(candidates, iceCur)
            /\ UNCHANGED <<published, mailbox, nextKey, reqFaults>>
       ELSE \E fail \in BOOLEAN :
              /\ (fail /\ ~connClosed) => reqFaults < MaxReqFaults
              /\ LET r == SignalSendCandidate(iceCur, connClosed, fail,
                                              published, mailbox, nextKey)
                 IN /\ published' = r.published
                    /\ mailbox' = r.mailbox
                    /\ nextKey' = IF r.sent THEN nextKey + 1 ELSE nextKey
                    /\ reqFaults' = IF r.err THEN reqFaults + 1 ELSE reqFaults
              /\ UNCHANGED candidates
    /\ candidatesMx' = ""
    /\ ipc' = "idle"
    /\ UNCHANGED <<remoteDescription, localDescription, emitted, gatherDone,
                   sdpPc, sdpType, sdpSeen, flushI, iceCur, connClosed, installedAt>>
    /\ UNCHANGED <<transferVars, lockVars, negVars, cleanVars, backoffVars, setupVars, doneVars, pollVars, rateVars, dpc, nodes,
                   pingResult, dialResult, onDataChannel, sigLog,
                   startedAfter, initMailbox, dialRole>>

\* sniffCandidates has downloaded the other instance's description and calls
\* s.sdpHandler: the offerer is sent an answer, the answerer an offer
SdpArrive ==
    /\ sdpPc = "idle"
    /\ sdpSeen < MaxSdp
    /\ sdpSeen' = sdpSeen + 1
    /\ sdpType' = IF dialRole = "offerer" THEN "answer" ELSE "offer"
    /\ sdpPc' = "setRemote"
    /\ UNCHANGED <<remoteDescription, localDescription, candidates,
                   candidatesMx, emitted, gatherDone, published, flushI, ipc,
                   iceCur, connClosed, mailbox, reqFaults, installedAt>>
    /\ CandUnchanged

\* What the signaling state of the connection lets SetRemoteDescription do: an
\* answer is applied only to a pending local offer, and an offer is refused
\* while a local offer is pending.
SignalingAllows(type, local, remote) ==
    IF type = "answer" THEN local = "offer" /\ remote = ""
    ELSE local # "offer"

\* onSignalSDP: json.Unmarshal and p.conn.SetRemoteDescription(sdp); an error
\* of either ends the handler
SdpSetRemote ==
    /\ sdpPc = "setRemote"
    /\ \E ok \in BOOLEAN :
         IF /\ ok
            /\ ~connClosed
            /\ SignalingAllows(sdpType, localDescription, remoteDescription)
         THEN /\ remoteDescription' = sdpType
              /\ installedAt' = IF installedAt < 0 THEN emitted
                                ELSE installedAt
              /\ sdpPc' = IF sdpType = "offer" THEN "answer" ELSE "lock"
         ELSE /\ sdpPc' = "idle"
              /\ UNCHANGED <<remoteDescription, installedAt>>
    /\ UNCHANGED <<localDescription, candidates, candidatesMx, emitted,
                   gatherDone, published, sdpType, sdpSeen, flushI, ipc,
                   iceCur, connClosed, mailbox, reqFaults>>
    /\ CandUnchanged

\* (mutation of SdpOffer: the answer is applied locally before it is sent)
SdpOfferSetLocalFirst ==
    /\ sdpPc = "answer"
    /\ localDescription' = "answer"
    /\ sdpPc' = "setLocal"
    /\ UNCHANGED <<remoteDescription, candidates, candidatesMx, emitted,
                   gatherDone, published, sdpType, sdpSeen, flushI, ipc,
                   iceCur, connClosed, mailbox, reqFaults, installedAt>>
    /\ CandUnchanged

\* onSignalSDPOffer: CreateAnswer, json.Marshal and p.signal.SendSDP(payload);
\* an error of any of them ends onSignalSDP
SdpOffer ==
    /\ sdpPc = "answer"
    /\ \E fail \in BOOLEAN :
         /\ MayFail(fail)
         /\ IF fail \/ connClosed
            THEN /\ reqFaults' = IF fail THEN reqFaults + 1 ELSE reqFaults
                 /\ sdpPc' = "idle"
                 /\ UNCHANGED <<mailbox, nextKey>>
            ELSE /\ mailbox' = UploadFile(mailbox, nextKey,
                                  FileName(SessionID, fileIoFileContentTypeSDP,
                                           InstanceID["A"]),
                                  SDPContent(<<"a", "n", "s", "w", "e", "r">>),
                                  "A")
                 /\ nextKey' = nextKey + 1
                 /\ sdpPc' = "setLocal"
                 /\ UNCHANGED reqFaults
    /\ UNCHANGED <<remoteDescription, localDescription, candidates,
                   candidatesMx, emitted, gatherDone, published, sdpType,
                   sdpSeen, flushI, ipc, iceCur, connClosed, installedAt>>
    /\ UNCHANGED <<transferVars, lockVars, negVars, cleanVars, backoffVars, setupVars, doneVars, pollVars, rateVars, dpc, nodes,
                   pingResult, dialResult, onDataChannel, sigLog,
                   startedAfter, initMailbox, dialRole>>

\* onSignalSDPOffer: return p.conn.SetLocalDescription(answer), which starts
\* the gathering; its error ends onSignalSDP
SdpOfferSetLocal ==
    /\ sdpPc = "setLocal"
    /\ \E ok \in BOOLEAN :
         IF ok /\ ~connClosed
         THEN /\ localDescription' = "answer"
              /\ sdpPc' = "lock"
         ELSE /\ sdpPc' = "idle"
              /\ UNCHANGED localDescription
    /\ UNCHANGED <<remoteDescription, candidates, candidatesMx, emitted,
                   gatherDone, published, sdpType, sdpSeen, flushI, ipc,
                   iceCur, connClosed, mailbox, reqFaults, installedAt>>
    /\ CandUnchanged

\* onSignalSDP: p.candidatesMx.Lock()
SdpLock ==
    /\ sdpPc = "lock"
    /\ candidatesMx = ""
    /\ candidatesMx' = "sdp"
    /\ flushI' = 1
    /\ sdpPc' = "flush"
    /\ UNCHANGED <<remoteDescription, localDescription, candidates, emitted,
                   gatherDone, published, sdpType, sdpSeen, ipc, iceCur,
                   connClosed, mailbox, reqFaults, installedAt>>
    /\ CandUnchanged

\* onSignalSDP: one iteration of "for _, candidate := range p.candidates";
\* an error of signalSendCandidate ends the handler; the deferred Unlock runs
\* when the loop ends
SdpFlush ==
    /\ sdpPc = "flush"
    /\ IF flushI > Len(candidates)
       THEN /\ candidatesMx' = ""
            /\ sdpPc' = "idle"
            /\ UNCHANGED <<published, mailbox, nextKey, reqFaults, flushI>>
       ELSE \E fail \in BOOLEAN :
              /\ (fail /\ ~connClosed) => reqFaults < MaxReqFaults
              /\ LET r == SignalSendCandidate(candidates[flushI], connClosed,
                                              fail, published, mailbox,
                                              nextKey)
                 IN /\ published' = r.published
                    /\ mailbox' = r.mailbox
                    /\ nextKey' = IF r.sent THEN nextKey + 1 ELSE nextKey
                    /\ reqFaults' = IF r.err THEN reqFaults + 1 ELSE reqFaults
                    /\ IF r.err
                       THEN /\ candidatesMx' = ""
                            /\ sdpPc' = "idle"
                            /\ UNCHANGED flushI
                       ELSE /\ flushI' = flushI + 1
                            /\ UNCHANGED <<candidatesMx, sdpPc>>
    /\ UNCHANGED <<remoteDescription, localDescription, candidates, emitted,
                   gatherDone, sdpType, sdpSeen, ipc, iceCur, connClosed, installedAt>>
    /\ UNCHANGED <<transferVars, lockVars, negVars, cleanVars, backoffVars, setupVars, doneVars, pollVars, rateVars, dpc, nodes,
                   pingResult, dialResult, onDataChannel, sigLog,
                   startedAfter, initMailbox, dialRole>>

\* the orchestrator calls Close: the connection state becomes closed
ConnClose ==
    /\ ~connClosed
    /\ connClosed' = TRUE
    /\ UNCHANGED <<remoteDescription, localDescription, candidates,
                   candidatesMx, emitted, gatherDone, published, sdpPc,
                   sdpType, sdpSeen, flushI, ipc, iceCur, mailbox, reqFaults, installedAt>>
    /\ CandUnchanged

NextCand ==
    \/ IceEmit
    \/ IceGatheringComplete
    \/ IceLock
    \/ IceHandle
    \/ SdpArrive
    \/ SdpSetRemote
    \/ SdpOffer
    \/ SdpOfferSetLocal
    \/ SdpLock
    \/ SdpFlush
    \/ ConnClose

SpecCand == InitCand /\ [][NextCand]_vars

-----------------------------------------------------------------------------
(* Properties of the candidate trickling *)

\* C6 (candidate ordering): the local candidates are uploaded in the order
\* in which the ICE agent emitted them, for every interleaving of the
\* candidate callback with the handling of the remote description: no
\* candidate is published before one that was emitted earlier.
C6_CandidateOrdering ==
    \A i, j \in 1..Len(published) : i < j => published[i] < published[j]

\* the number of times candidate c has been uploaded
Uploads(c) == Cardinality({i \in 1..Len(published) : published[i] = c})

\* onSignalSDP has installed a remote description and has returned
DescriptionHandled == remoteDescription # "" /\ sdpPc = "idle"

SdpUploads ==
    {i \in 1..Len(mailbox) :
        /\ mailbox[i].author = "A"
        /\ mailbox[i].content.type = fileIoFileContentTypeSDP}

\* C18 (answer ordering): on receiving a remote description the peer first
\* sets it as remote description; if it is an offer it creates an answer,
\* uploads the answer to the mailbox, and only after the upload has succeeded
\* sets the answer as local description; on receiving an answer it uploads
\* no session description.
C18_AnswerOrdering ==
    /\ sdpPc \in {"answer", "setLocal", "lock", "flush"}
          => remoteDescription = sdpType
    /\ sdpPc = "setLocal" => SdpUploads # {}
    /\ localDescription = "answer"
          => remoteDescription = "offer" /\ SdpUploads # {}
    /\ sdpType = "answer" => SdpUploads = {}

\* C18 witness: an offer has been handled to its end: it is the remote
\* description, the answer is in the mailbox and is the local description
C18_Witness ==
    /\ sdpPc = "idle"
    /\ sdpType = "offer"
    /\ remoteDescription = "offer"
    /\ localDescription = "answer"
    /\ Cardinality(SdpUploads) = 1
    /\ reqFaults = 0

-----------------------------------------------------------------------------
(* Orchestrator and terminal notifications of one instance.  The peer       *)
(* connection calls the handler of OnConnectionStateChange in a goroutine   *)
(* of its own for every change of state; runBackupMode waits in one select. *)

\* the states in which onConnStateChange sends on p.shutdownChan
TerminalStates == {"disconnected", "failed", "closed"}

\* Dial has returned nil and the polling goroutine has been started
InitDone ==
    /\ TransferIdle
    /\ LockIdle
    /\ NegIdle
    /\ CleanIdle
    /\ BackoffIdle
    /\ SetupIdle
    /\ PingIdle
    /\ CandIdle
    /\ PollIdle
    /\ RateIdle
    /\ connState = "new"
    /\ notifiers = 0
    /\ doneSent = 0
    /\ doneReceived = 0
    /\ opc = "select"
    /\ ctxDone = FALSE
    /\ fmPc = "idle"
    /\ listenPc = "loop"
    /\ tickC = FALSE
    /\ listenLog = <<>>

DoneUnchanged == UNCHANGED <<transferVars, lockVars, negVars, cleanVars, backoffVars, setupVars, pingVars, candVars, pollVars,
                             rateVars>>

\* onConnStateChange(state), run in its own goroutine: a terminal state makes
\* it send on the unbuffered p.shutdownChan, where it blocks until a receive
OnConnStateChange(state) ==
    IF state \in TerminalStates
    THEN /\ notifiers' = notifiers + 1
         /\ doneSent' = doneSent + 1
    ELSE UNCHANGED <<notifiers, doneSent>>

\* the connection moves on: new -> connecting -> connected, connected ->
\* disconnected -> connected or failed, connecting -> failed
ConnChange ==
    /\ opc # "panic"
    /\ \E state \in {"connecting", "connected", "disconnected", "failed"} :
         /\ \/ connState = "new" /\ state = "connecting"
            \/ connState = "connecting" /\ state \in {"connected", "failed"}
            \/ connState = "connected" /\ state = "disconnected"
            \/ connState = "disconnected" /\ state \in {"connected", "failed"}
         /\ state \in TerminalStates => doneSent < MaxTerminal
         /\ connState' = state
         /\ OnConnStateChange(state)
    /\ UNCHANGED <<doneReceived, opc, ctxDone, fmPc, listenPc, tickC,
                   listenLog>>
    /\ DoneUnchanged

\* the data channel opens: registerDataChannel's OnOpen calls
\* p.establishHandler, which is Backupper.onEstablish
Establish ==
    /\ opc # "panic"
    /\ connState = "connected"
    /\ fmPc = "idle"
    /\ fmPc' = "transfer"
    /\ UNCHANGED <<connState, notifiers, doneSent, doneReceived, opc, ctxDone,
                   listenPc, tickC, listenLog>>
    /\ DoneUnchanged

\* onEstablish: the send or the receive has returned; m.shutdownChan <- is
\* reached and blocks until a receive
TransferEnd ==
    /\ opc # "panic"
    /\ fmPc = "transfer"
    /\ fmPc' = "notify"
    /\ UNCHANGED <<connState, notifiers, doneSent, doneReceived, opc, ctxDone,
                   listenPc, tickC, listenLog>>
    /\ DoneUnchanged

\* listenOS: SIGINT or SIGTERM arrives and the goroutine calls cancel()
OsSignal ==
    /\ opc # "panic"
    /\ ~ctxDone
    /\ opc # "returned"
    /\ ctxDone' = TRUE
    /\ UNCHANGED <<connState, notifiers, doneSent, doneReceived, opc, fmPc,
                   listenPc, tickC, listenLog>>
    /\ DoneUnchanged

\* runBackupMode: select takes case <-ctx.Done()
SelectCtx ==
    /\ opc = "select"
    /\ ctxDone
    /\ opc' = "close"
    /\ UNCHANGED <<connState, notifiers, doneSent, doneReceived, ctxDone, fmPc,
                   listenPc, tickC, listenLog>>
    /\ DoneUnchanged

\* runBackupMode: select takes case <-a.peer.Done(): one blocked sender is
\* released
SelectPeerDone ==
    /\ opc = "select"
    /\ notifiers > 0
    /\ notifiers' = notifiers - 1
    /\ doneReceived' = doneReceived + 1
    /\ opc' = "close"
    /\ UNCHANGED <<connState, doneSent, ctxDone, fmPc, listenPc, tickC,
                   listenLog>>
    /\ DoneUnchanged

\* runBackupMode: select takes case <-a.fileManager.Done()
SelectFileManagerDone ==
    /\ opc = "select"
    /\ fmPc = "notify"
    /\ fmPc' = "done"
    /\ opc' = "close"
    /\ UNCHANGED <<connState, notifiers, doneSent, doneReceived, ctxDone,
                   listenPc, tickC, listenLog>>
    /\ DoneUnchanged

\* runBackupMode: a.peer.Close(): p.conn.Close() moves the connection to
\* closed, which calls the state handler once more
PeerClose ==
    /\ opc = "close"
    /\ opc' = "cancel"
    /\ IF connState # "closed"
       THEN /\ connState' = "closed"
            /\ OnConnStateChange("closed")
       ELSE UNCHANGED <<connState, notifiers, doneSent>>
    /\ UNCHANGED <<doneReceived, ctxDone, fmPc, listenPc, tickC,
                   listenLog>>
    /\ DoneUnchanged

\* runBackupMode: cancel(), return nil; the deferred wg.Wait() starts
Cancel ==
    /\ opc = "cancel"
    /\ ctxDone' = TRUE
    /\ opc' = "wait"
    /\ UNCHANGED <<connState, notifiers, doneSent, doneReceived, fmPc,
                   listenPc, tickC, listenLog>>
    /\ DoneUnchanged

\* the number of polls Listen has started
ListenPolls ==
    Cardinality({i \in 1..Len(listenLog) : listenLog[i] # "cleanUp"})

\* Listen: five seconds have passed and the ticker puts a tick into
\* ticker.C, which holds at most one
TickerFires ==
    /\ listenPc \in {"loop", "sniff"}
    /\ ~tickC
    /\ ListenPolls < MaxPolls
    /\ tickC' = TRUE
    /\ UNCHANGED <<connState, notifiers, doneSent, doneReceived, opc, ctxDone,
                   fmPc, listenPc, listenLog>>
    /\ DoneUnchanged

\* Listen: select takes case <-ticker.C and calls s.sniffCandidates(); when
\* ctx.Done() is ready as well, select takes either case
ListenTick ==
    /\ listenPc = "loop"
    /\ tickC
    /\ tickC' = FALSE
    /\ listenPc' = "sniff"
    /\ listenLog' = Append(listenLog, IF ctxDone THEN "latePoll" ELSE "poll")
    /\ UNCHANGED <<connState, notifiers, doneSent, doneReceived, opc, ctxDone,
                   fmPc>>
    /\ DoneUnchanged

\* Listen: s.sniffCandidates() returns, its error is logged, and the loop
\* is at its select again
ListenSniffed ==
    /\ listenPc = "sniff"
    /\ listenPc' = "loop"
    /\ UNCHANGED <<connState, notifiers, doneSent, doneReceived, opc, ctxDone,
                   fmPc, tickC, listenLog>>
    /\ DoneUnchanged

\* Listen: case <-ctx.Done(): break OUTER
ListenCancelled ==
    /\ listenPc = "loop"
    /\ ctxDone
    /\ listenPc' = "cleanUp"
    /\ UNCHANGED <<connState, notifiers, doneSent, doneReceived, opc, ctxDone,
                   fmPc, tickC, listenLog>>
    /\ DoneUnchanged

\* (mutation of ListenCleanUp: cleanUp is not run)
ListenWithoutCleanUp ==
    /\ listenPc = "cleanUp"
    /\ listenPc' = "exited"
    /\ UNCHANGED <<connState, notifiers, doneSent, doneReceived, opc, ctxDone,
                   fmPc, tickC, listenLog>>
    /\ DoneUnchanged

\* Listen: s.cleanUp() runs.  When its findFiles fails, files is nil and
\* "range files.Nodes" dereferences it: the goroutine panics and the process
\* ends with it.  Otherwise cleanUp returns and so does Listen.
ListenCleanUp ==
    /\ listenPc = "cleanUp"
    /\ listenLog' = Append(listenLog, "cleanUp")
    /\ \E listed \in BOOLEAN :
         IF listed
         THEN /\ listenPc' = "exited"
              /\ UNCHANGED opc
         ELSE /\ listenPc' = "panic"
              /\ opc' = "panic"
    /\ UNCHANGED <<connState, notifiers, doneSent, doneReceived, ctxDone,
                   fmPc, tickC>>
    /\ DoneUnchanged

\* runBackupMode: wg.Wait() returns when Listen has, and Run returns
Return ==
    /\ opc = "wait"
    /\ listenPc = "exited"
    /\ opc' = "returned"
    /\ UNCHANGED <<connState, notifiers, doneSent, doneReceived, ctxDone, fmPc,
                   listenPc, tickC, listenLog>>
    /\ DoneUnchanged

NextDone ==
    \/ ConnChange
    \/ Establish
    \/ TransferEnd
    \/ OsSignal
    \/ SelectCtx
    \/ SelectPeerDone
    \/ SelectFileManagerDone
    \/ PeerClose
    \/ Cancel
    \/ TickerFires
    \/ ListenTick
    \/ ListenSniffed
    \/ ListenCancelled
    \/ ListenCleanUp
    \/ Return

SpecDone == InitDone /\ [][NextDone]_vars

\* Scheduling of a run: a goroutine that can take a step takes it (a poll
\* and cleanUp return, runBackupMode goes on), and a select whose case
\* <-ctx.Done() is ready again and again takes it at last, since select
\* chooses among its ready cases at random
DoneFairness ==
    /\ WF_vars(ListenSniffed)
    /\ SF_vars(ListenCancelled)
    /\ WF_vars(ListenCleanUp)
    /\ WF_vars(SelectCtx)
    /\ WF_vars(SelectPeerDone)
    /\ WF_vars(SelectFileManagerDone)
    /\ WF_vars(PeerClose)
    /\ WF_vars(Cancel)
    /\ WF_vars(Return)

SpecDoneFair == InitDone /\ [][NextDone]_vars /\ DoneFairness

-----------------------------------------------------------------------------
(* Properties of the terminal notification *)

\* C7 (single done()): for every sequence of connection-state changes,
\* several terminal ones in a row and the closed one of the orchestrator's
\* own Close included, done() is signalled exactly once: p.shutdownChan is
\* never sent on a second time, and it has been sent on once the connection
\* has entered a terminal state.
C7_SingleDone ==
    /\ doneSent <= 1
    /\ connState \in TerminalStates => doneSent = 1

\* the number of times s.cleanUp() has run
CleanUps ==
    Cardinality({i \in 1..Len(listenLog) : listenLog[i] = "cleanUp"})

\* C19 (cleanup exactly once), as claimed: in every backup-mode run in which
\* dial succeeded, after the root context is cancelled the polling loop
\* performs no further poll, mailbox cleanup runs exactly once, and the run
\* returns only after that cleanup has finished.
C19_CleanupExactlyOnce ==
    /\ \A i \in 1..Len(listenLog) : listenLog[i] # "latePoll"
    /\ CleanUps <= 1
    /\ listenPc \in {"cleanUp", "exited"} => ctxDone
    /\ opc = "returned" => CleanUps = 1 /\ listenPc = "exited"

\* C19, amended: mailbox cleanup runs only after the root context is
\* cancelled and at most once, no poll follows it, and the run returns only
\* after the cleanup has run once and Listen has returned.
CleanupOnceBeforeReturn ==
    /\ CleanUps <= 1
    /\ \A i \in 1..Len(listenLog) :
          listenLog[i] = "cleanUp" => i = Len(listenLog)
    /\ listenPc \in {"cleanUp", "exited"} => ctxDone
    /\ listenPc \in {"exited", "panic"} <=> CleanUps = 1
    /\ opc = "returned" => CleanUps = 1 /\ listenPc = "exited"

\* C19, amended, with its liveness half: the above holds always, and once
\* the root context is cancelled the cleanup does run.
C19_CleanupOnceBeforeReturn ==
    /\ []CleanupOnceBeforeReturn
    /\ ctxDone ~> (CleanUps = 1)

\* C19 witness: the loop has polled, the context has been cancelled by an
\* OS signal, cleanUp has run and the run has returned
C19_Witness ==
    /\ opc = "returned"
    /\ ctxDone
    /\ doneReceived = 0
    /\ fmPc # "done"
    /\ listenLog = <<"poll", "cleanUp">>

\* one of the three events runBackupMode waits for has occurred
WakeEvent == ctxDone \/ notifiers > 0 \/ fmPc = "notify"

\* the order of runBackupMode after its select: a.peer.Close(), cancel(),
\* wg.Wait(), return
ShutdownOrder ==
    /\ opc \in {"close", "cancel", "wait", "returned"}
          => (ctxDone \/ doneReceived > 0 \/ fmPc = "done")
    /\ opc \in {"cancel", "wait", "returned"} => connState = "closed"
    /\ opc \in {"wait", "returned"} => ctxDone
    /\ opc = "returned" => listenPc = "exited"

\* C21 (orchestrator shutdown): after dial, whichever of the three events
\* occurs first (root context cancelled, peer transport done, transfer engine
\* done), the orchestrator closes the peer connection, then cancels the
\* context, and eventually returns after the polling task has ended,
\* assuming every mailbox request eventually completes.
C21_OrchestratorShutdown ==
    /\ []ShutdownOrder
    /\ WakeEvent ~> (opc = "returned")

\* a connection-state callback is blocked in its send on p.shutdownChan, or
\* onEstablish is blocked in its send on m.shutdownChan
NotifierBlocked == notifiers > 0 \/ fmPc = "notify"

\* runBackupMode has left its select, the only place that receives from
\* Done() of the peer transport and of the transfer engine
SelectLeft == opc \in {"close", "cancel", "wait", "returned"}

\* C29 (no stuck notifier): every invocation of the connection-state callback
\* for a terminal state, and the completion signal at the end of onEstablish,
\* eventually returns, also when the orchestrator has already woken on a
\* different event: no send on a notification channel is pending when the
\* orchestrator has left its select and will receive no more.
C29_NoStuckNotifier == SelectLeft => ~NotifierBlocked

-----------------------------------------------------------------------------
(* Polling loop of instance A: FileIo.Listen calls sniffCandidates on every *)
(* tick.  Meanwhile A's peer transport and the other instance upload        *)
(* entries, and entries disappear (downloaded or deleted by the other       *)
(* instance).                                                               *)

\* the kinds of entries an instance uploads
Kinds == {fileIoFileContentTypePing, fileIoFileContentTypeSDP,
          fileIoFileContentTypeCandidate}

\* the content json.Encode writes for an entry of this kind
ContentOf(kind) ==
    IF kind = fileIoFileContentTypePing THEN PingContent
    ELSE IF kind = fileIoFileContentTypeSDP THEN SDPContent(OfferPayload)
    ELSE CandidateContent(<<1>>)

\* Listen has been started; the mailbox holds what Dial of either instance
\* or a process of another session "v" has left
InitPoll ==
    /\ TransferIdle
    /\ LockIdle
    /\ NegIdle
    /\ CleanIdle
    /\ BackoffIdle
    /\ SetupIdle
    /\ CandIdle
    /\ DoneIdle
    /\ RateIdle
    /\ mailbox \in
         { <<>>,
           <<StaleEntry(0, <<"v">>, fileIoFileContentTypeSDP,
                        <<"x", "3">>)>>,
           <<StaleEntry(0, SessionID, fileIoFileContentTypePing,
                        InstanceID["A"])>>,
           <<StaleEntry(0, SessionID, fileIoFileContentTypePing,
                        InstanceID["B"])>> }
    /\ nextKey = 1
    /\ dpc = [p \in Peers |-> "done"]
    /\ nodes = [p \in Peers |-> <<>>]
    /\ pingResult = [p \in Peers |-> ""]
    /\ dialResult = [p \in Peers |-> "ok"]
    /\ onDataChannel = [p \in Peers |-> ""]
    /\ reqFaults = 0
    /\ sigLog = <<>>
    /\ startedAfter = [p \in Peers |-> {}]
    /\ initMailbox = mailbox
    /\ pollPc = "wait"
    /\ pollNodes = <<>>
    /\ polls = 0
    /\ skipped = {}
    /\ downloaded = <<>>
    /\ dispatched = <<>>
    /\ sdpSent = {}
    /\ taken = {}
    /\ failedDownloads = {}

PollUnchanged == UNCHANGED <<transferVars, lockVars, negVars, cleanVars, backoffVars, setupVars, candVars, doneVars, rateVars, dpc,
                             nodes, pingResult, dialResult, onDataChannel,
                             sigLog, startedAfter, initMailbox>>

\* an instance uploads an entry: uploadPing, uploadSDP or uploadCandidate; its
\* peer transport sends a candidate only once it has uploaded its description
\* (offer: before Listen is started; onSignalSDPOffer: before the answer is
\* set as local description, which starts the gathering)
EntryUpload(p, kind) ==
    /\ nextKey <= MaxEntries
    /\ kind = fileIoFileContentTypeCandidate => p \in sdpSent
    /\ sdpSent' = IF kind = fileIoFileContentTypeSDP THEN sdpSent \cup {p}
                  ELSE sdpSent
    /\ mailbox' = UploadFile(mailbox, nextKey,
                             FileName(SessionID, kind, InstanceID[p]),
                             ContentOf(kind), p)
    /\ nextKey' = nextKey + 1
    /\ UNCHANGED <<reqFaults, pollPc, pollNodes, polls, skipped, downloaded,
                   dispatched, taken, failedDownloads>>
    /\ PollUnchanged

\* the entry the service holds under a key
EntryOf(mb, key) == mb[CHOOSE i \in 1..Len(mb) : mb[i].key = key]

\* the other instance takes an entry away: its polling loop downloads an
\* entry of A (uploaded with maxDownloads=1, autoDelete=true), or its Ping or
\* its cleanUp deletes one
EntryGone(key) ==
    /\ HasKey(mailbox, key)
    /\ mailbox' = DeleteFile(mailbox, key)
    /\ taken' = taken \cup {EntryOf(mailbox, key).name}
    /\ UNCHANGED <<nextKey, reqFaults, pollPc, pollNodes, polls, skipped,
                   downloaded, dispatched, sdpSent, failedDownloads>>
    /\ PollUnchanged

\* Listen, started once Dial has returned nil: case <-ticker.C:
\* sniffCandidates: s.findFiles(s.cfg.SessionID); an error is returned and
\* logged by Listen
PollFind ==
    /\ pollPc = "wait"
    /\ dialResult["A"] = "ok"
    /\ polls < MaxPolls
    /\ polls' = polls + 1
    /\ \E fail \in BOOLEAN :
         /\ MayFail(fail)
         /\ IF fail
            THEN /\ reqFaults' = reqFaults + 1
                 /\ UNCHANGED <<pollPc, pollNodes>>
            ELSE /\ pollNodes' = FindFiles(SessionID, mailbox)
                 /\ pollPc' = "nodes"
                 /\ UNCHANGED reqFaults
    /\ UNCHANGED <<mailbox, nextKey, skipped, downloaded, dispatched, sdpSent,
                   taken, failedDownloads>>
    /\ PollUnchanged

\* (mutation of OwnEntry: no entry is taken for an own one)
OwnEntryNever(fname, instance) == FALSE

\* sniffCandidates: strings.Contains(node.Name, s.cfg.InstanceID)
OwnEntry(fname, instance) == Contains(fname, instance)

\* (mutation of PollNode: a failed download ends sniffCandidates)
PollNodeReturnsOnError ==
    /\ pollPc = "nodes"
    /\ IF pollNodes = <<>>
       THEN /\ pollPc' = "wait"
            /\ UNCHANGED <<pollNodes, mailbox, reqFaults, skipped, downloaded,
                           dispatched, failedDownloads>>
       ELSE LET node == Head(pollNodes)
            IN IF OwnEntry(node.name, InstanceID["A"])
                  THEN /\ skipped' = skipped \cup {node.name}
                       /\ pollNodes' = Tail(pollNodes)
                       /\ UNCHANGED pollPc
                       /\ UNCHANGED <<mailbox, reqFaults, downloaded,
                                      dispatched, failedDownloads>>
                  ELSE \E fail \in BOOLEAN :
                         /\ MayFail(fail)
                         /\ UNCHANGED skipped
                         /\ IF fail
                            THEN /\ reqFaults' = reqFaults + 1
                                 /\ failedDownloads' =
                                       failedDownloads \cup {node.name}
                                 /\ pollNodes' = <<>>
                                 /\ pollPc' = "wait"
                                 /\ UNCHANGED <<mailbox, downloaded,
                                                dispatched>>
                            ELSE IF ~HasKey(mailbox, node.key)
                            THEN /\ pollNodes' = Tail(pollNodes)
                                 /\ UNCHANGED <<mailbox, reqFaults, downloaded,
                                                dispatched, failedDownloads,
                                                pollPc>>
                            ELSE LET e == EntryOf(mailbox, node.key)
                                 IN /\ mailbox' = DeleteFile(mailbox, node.key)
                                    /\ downloaded' = Append(downloaded, e)
                                    /\ dispatched' =
                                         IF e.content.type \in
                                              {fileIoFileContentTypeSDP,
                                               fileIoFileContentTypeCandidate}
                                         THEN Append(dispatched, e)
                                         ELSE dispatched
                                    /\ pollNodes' = Tail(pollNodes)
                                    /\ UNCHANGED <<reqFaults, pollPc,
                                                   failedDownloads>>
    /\ UNCHANGED <<nextKey, polls, sdpSent, taken>>
    /\ PollUnchanged

\* sniffCandidates: one iteration of "for _, node := range files.Nodes": an
\* own entry is passed over; any other is downloaded, which makes the service
\* delete it, and is passed to the handler of its type; a failed download is
\* logged; the answer for an entry that is gone decodes to no known type
PollNode ==
    /\ pollPc = "nodes"
    /\ IF pollNodes = <<>>
       THEN /\ pollPc' = "wait"
            /\ UNCHANGED <<pollNodes, mailbox, reqFaults, skipped, downloaded,
                           dispatched, failedDownloads>>
       ELSE LET node == Head(pollNodes)
            IN /\ pollNodes' = Tail(pollNodes)
               /\ UNCHANGED pollPc
               /\ IF OwnEntry(node.name, InstanceID["A"])
                  THEN /\ skipped' = skipped \cup {node.name}
                       /\ UNCHANGED <<mailbox, reqFaults, downloaded,
                                      dispatched, failedDownloads>>
                  ELSE \E fail \in BOOLEAN :
                         /\ MayFail(fail)
                         /\ UNCHANGED skipped
                         /\ IF fail
                            THEN /\ reqFaults' = reqFaults + 1
                                 /\ failedDownloads' =
                                       failedDownloads \cup {node.name}
                                 /\ UNCHANGED <<mailbox, downloaded,
                                                dispatched>>
                            ELSE IF ~HasKey(mailbox, node.key)
                            THEN UNCHANGED <<mailbox, reqFaults, downloaded,
                                             dispatched, failedDownloads>>
                            ELSE LET e == EntryOf(mailbox, node.key)
                                 IN /\ mailbox' = DeleteFile(mailbox, node.key)
                                    /\ downloaded' = Append(downloaded, e)
                                    /\ dispatched' =
                                         IF e.content.type \in
                                              {fileIoFileContentTypeSDP,
                                               fileIoFileContentTypeCandidate}
                                         THEN Append(dispatched, e)
                                         ELSE dispatched
                                    /\ UNCHANGED <<reqFaults,
                                                   failedDownloads>>
    /\ UNCHANGED <<nextKey, polls, sdpSent, taken>>
    /\ PollUnchanged

NextPoll ==
    \/ \E p \in Peers, kind \in Kinds : EntryUpload(p, kind)
    \/ \E key \in 0..MaxEntries : EntryGone(key)
    \/ PollFind
    \/ PollNode

SpecPoll == InitPoll /\ [][NextPoll]_vars

-----------------------------------------------------------------------------
(* Properties of the polling loop *)

\* the file name says that the entry is of this instance: it ends with
\* "_", the InstanceID and ".json"
NameCarries(fname, instance) ==
    LET tail == <<"_">> \o instance \o <<".", "j", "s", "o", "n">>
    IN /\ Len(fname) >= Len(tail)
       /\ SubSeq(fname, Len(fname) - Len(tail) + 1, Len(fname)) = tail

\* C8 (mailbox author-exclusion): in every poll, no entry whose name carries
\* the instance's own InstanceID, and no entry the instance has uploaded
\* itself, is downloaded or passed to the SDP or the candidate handler.
C8_AuthorExclusion ==
    /\ \A i \in 1..Len(downloaded) :
          /\ ~NameCarries(downloaded[i].name, InstanceID["A"])
          /\ downloaded[i].author # "A"
    /\ \A i \in 1..Len(dispatched) :
          /\ ~NameCarries(dispatched[i].name, InstanceID["A"])
          /\ dispatched[i].author # "A"

\* C8 witness: one poll has listed an SDP entry of the instance itself and
\* one of the other instance; the own one has been passed over, the other
\* one has been downloaded and passed to a handler
C8_Witness ==
    /\ polls = 1
    /\ pollPc = "wait"
    /\ FileName(SessionID, fileIoFileContentTypeSDP, InstanceID["A"])
          \in skipped
    /\ \E i \in 1..Len(dispatched) :
          /\ dispatched[i].author = "B"
          /\ dispatched[i].content.type = fileIoFileContentTypeSDP

\* the name of the description entry of the author of entry e
DescriptionOf(e) ==
    FileName(SessionID, fileIoFileContentTypeSDP, InstanceID[e.author])

\* the polling loop has passed a description of the author of dispatched[j]
\* to the SDP handler before it passed dispatched[j] to its handler
DescriptionFirst(j) ==
    \E i \in 1..(j - 1) :
       /\ dispatched[i].author = dispatched[j].author
       /\ dispatched[i].content.type = fileIoFileContentTypeSDP

-----------------------------------------------------------------------------
(* Rate discipline of FileIo.request.  Time is a clock in milliseconds;     *)
(* time.Sleep(d) ends at some time not earlier than d after its start.      *)

InitRate ==
    /\ TransferIdle
    /\ LockIdle
    /\ NegIdle
    /\ CleanIdle
    /\ BackoffIdle
    /\ SetupIdle
    /\ PingIdle
    /\ CandIdle
    /\ DoneIdle
    /\ PollIdle
    /\ now = 0
    /\ requestMx = FALSE
    /\ delayUnlocks = {}
    /\ cpc = [c \in Callers |-> "idle"]
    /\ wakeAt = [c \in Callers |-> 0]
    /\ sent = <<>>

RateUnchanged == UNCHANGED <<transferVars, lockVars, negVars, cleanVars, backoffVars, setupVars, pingVars, candVars, doneVars,
                             pollVars>>

\* time passes
Tick ==
    /\ now + TimeStep <= MaxTime
    /\ now' = now + TimeStep
    /\ UNCHANGED <<requestMx, delayUnlocks, cpc, wakeAt, sent>>
    /\ RateUnchanged

\* a goroutine calls request: http.NewRequest succeeds, the headers are set
\* and s.requestMx.Lock() is reached
Request(c) ==
    /\ cpc[c] = "idle"
    /\ cpc' = [cpc EXCEPT ![c] = "lock"]
    /\ UNCHANGED <<now, requestMx, delayUnlocks, wakeAt, sent>>
    /\ RateUnchanged

\* (mutation of RequestLock: Lock returns although the mutex is held)
RequestLockUnguarded(c) ==
    /\ cpc[c] = "lock"
    /\ requestMx' = TRUE
    /\ cpc' = [cpc EXCEPT ![c] = "do"]
    /\ UNCHANGED <<now, delayUnlocks, wakeAt, sent>>
    /\ RateUnchanged

\* request: s.requestMx.Lock() returns
RequestLock(c) ==
    /\ cpc[c] = "lock"
    /\ ~requestMx
    /\ requestMx' = TRUE
    /\ cpc' = [cpc EXCEPT ![c] = "do"]
    /\ UNCHANGED <<now, delayUnlocks, wakeAt, sent>>
    /\ RateUnchanged

\* request: http.DefaultClient.Do(req) sends the request
RequestDo(c) ==
    /\ cpc[c] = "do"
    /\ sent' = Append(sent, [at |-> now, by |-> c])
    /\ cpc' = [cpc EXCEPT ![c] = "await"]
    /\ UNCHANGED <<now, requestMx, delayUnlocks, wakeAt>>
    /\ RateUnchanged

\* (mutation of DelayUnlock: the goroutine does not sleep)
UnlockAtOnce(t, delay) == t

\* UnlockDelayMutex.DelayUnlock: a goroutine sleeps for the delay and then
\* unlocks; the earliest time of the unlock
DelayUnlock(t, delay) == t + delay

\* request: Do returns: an error or a response other than 429 ends the loop,
\* request returns and the deferred DelayUnlock starts its goroutine; after a
\* 429 the caller sleeps for the backoff delay, still holding the mutex
RequestDone(c) ==
    /\ cpc[c] = "await"
    /\ \E tooManyRequests \in BOOLEAN :
         IF tooManyRequests
         THEN /\ wakeAt' = [wakeAt EXCEPT ![c] = now + BackoffDelay]
              /\ cpc' = [cpc EXCEPT ![c] = "sleep"]
              /\ UNCHANGED delayUnlocks
         ELSE /\ delayUnlocks' = delayUnlocks
                                   \cup {DelayUnlock(now, SpacingDelay)}
              /\ cpc' = [cpc EXCEPT ![c] = "idle"]
              /\ UNCHANGED wakeAt
    /\ UNCHANGED <<now, requestMx, sent>>
    /\ RateUnchanged

\* request: time.Sleep(7500 * time.Millisecond) returns, continue
RequestRetry(c) ==
    /\ cpc[c] = "sleep"
    /\ now >= wakeAt[c]
    /\ cpc' = [cpc EXCEPT ![c] = "do"]
    /\ UNCHANGED <<now, requestMx, delayUnlocks, wakeAt, sent>>
    /\ RateUnchanged

\* DelayUnlock's goroutine: time.Sleep(delay) returns, m.Mutex.Unlock()
Unlock ==
    /\ \E t \in delayUnlocks :
         /\ now >= t
         /\ delayUnlocks' = delayUnlocks \ {t}
    /\ requestMx' = FALSE
    /\ UNCHANGED <<now, cpc, wakeAt, sent>>
    /\ RateUnchanged

NextRate ==
    \/ Tick
    \/ \E c \in Callers : Request(c)
    \/ \E c \in Callers : RequestLock(c)
    \/ \E c \in Callers : RequestDo(c)
    \/ \E c \in Callers : RequestDone(c)
    \/ \E c \in Callers : RequestRetry(c)
    \/ Unlock

SpecRate == InitRate /\ [][NextRate]_vars

-----------------------------------------------------------------------------
(* Properties of the rate discipline *)

\* C9 (rate discipline): of any two consecutive outbound requests of one
\* instance, whichever of its goroutines issue them, the second one is sent
\* at least the spacing delay (2.5 s) after the first one.
C9_RateDiscipline ==
    \A i \in 1..(Len(sent) - 1) : sent[i + 1].at - sent[i].at >= SpacingDelay

\* C9 witness: two goroutines have each sent a request, the second one as
\* early as the mutex lets it: exactly the spacing delay after the first
C9_Witness ==
    /\ Len(sent) >= 2
    /\ sent[1].by # sent[2].by
    /\ sent[2].at - sent[1].at = SpacingDelay

-----------------------------------------------------------------------------
(* Set-up of a process (internal/app.go): main calls Setup and, when it    *)
(* returns nil, Run. A path of the command line is modelled by what        *)
(* os.Stat finds at it, the password file by what its bytes are.           *)

\* what a path flag holds: "" (flag not given), else a path at which there is
\* nothing, a regular file or a directory
EntryKinds == {"", "missing", "file", "dir"}

\* what --passfile holds: "" (flag not given), else a path at which there is
\* nothing, a file whose length is not a multiple of the AES block, a file
\* of whole blocks with wrong padding, a file that decrypts to less than two
\* length-prefixed strings, or a file written by SavePasswords
PasswordFiles == {"", "missing", "partialBlock", "badPadding", "truncated",
                  "good"}

Cmdlines ==
    [encryptionMode : BOOLEAN, passwordFile : PasswordFiles,
     apiKey : {"", "k"}, sessionUUID : {"", "u"}, zipDir : BOOLEAN,
     sourceEntry : EntryKinds, outputFilename : {"", "o"},
     destinationDir : EntryKinds]

InitSetup ==
    /\ TransferIdle
    /\ LockIdle
    /\ NegIdle
    /\ CleanIdle
    /\ BackoffIdle
    /\ PingIdle
    /\ CandIdle
    /\ DoneIdle
    /\ PollIdle
    /\ RateIdle
    /\ cfg \in Cmdlines
    /\ apc = "main"
    /\ exitErr = ""
    /\ passwordManager = FALSE
    /\ dialCalled = FALSE
    /\ mailboxRequests = <<>>

SetupUnchanged == UNCHANGED <<transferVars, lockVars, negVars, cleanVars, backoffVars, pingVars, candVars, doneVars,
                              pollVars, rateVars, cfg>>

\* signal.NewFileIo(cfg): the error, "" for nil (InstanceID is a fresh UUID)
NewFileIo(c) ==
    IF c.apiKey = "" THEN "API key is empty"
    ELSE IF c.sessionUUID = "" THEN "session ID is empty"
    ELSE ""

\* LocalSaver.GetPasswords on the password file f: the error, "" for nil,
\* "panic" when cipher.BlockMode.CryptBlocks panics on a partial block
GetPasswords(f) ==
    IF f = "missing" THEN "ENOENT"
    ELSE IF f = "partialBlock" THEN "panic"
    ELSE IF f = "badPadding" THEN "bad padding"
    ELSE IF f = "truncated" THEN "EOF"
    ELSE ""

\* (mutation of NewBackupper: the constructor validates nothing)
NewBackupperUnchecked(c) == ""

\* filemanager.NewBackupper(cfg, peer): the error, "" for nil
NewBackupper(c) ==
    IF c.destinationDir # "" /\ c.destinationDir = "missing" THEN "ENOENT"
    ELSE IF c.destinationDir # "" /\ c.destinationDir # "dir"
         THEN "errNotDirectory"
    ELSE IF c.sourceEntry # "" /\ c.sourceEntry = "missing" THEN "ENOENT"
    ELSE IF c.sourceEntry # "" /\ c.zipDir /\ c.sourceEntry # "dir"
         THEN "errNotDirectory"
    ELSE IF c.sourceEntry # "" /\ c.zipDir /\ c.outputFilename = ""
         THEN "output filename is empty"
    ELSE IF c.sourceEntry # "" /\ ~c.zipDir /\ c.sourceEntry = "dir"
         THEN "errIsDirectory"
    ELSE ""

\* a step of Setup returns err: Setup returns it and main calls log.Fatal;
\* a panic ends the process as well
Fatal(wrap, err, next) ==
    /\ apc' = IF err = "" THEN next ELSE "exit"
    /\ exitErr' = IF err = "" THEN exitErr
                  ELSE IF err = "panic" THEN err
                  ELSE wrap \o ": " \o err

\* Setup: a.parseCmdline() and the choice of the next step
ParseCmdline ==
    /\ apc = "main"
    /\ apc' = IF cfg.passwordFile # "" THEN "setupPasswordManager"
              ELSE IF cfg.encryptionMode THEN "run"
              ELSE "NewFileIo"
    /\ UNCHANGED <<exitErr, passwordManager, dialCalled, mailboxRequests>>
    /\ SetupUnchanged

\* setupPasswordManager: the key has a valid length, NewAesCbc returns nil
SetupPasswordManager ==
    /\ apc = "setupPasswordManager"
    /\ passwordManager' = TRUE
    /\ apc' = IF cfg.encryptionMode THEN "run" ELSE "NewFileIo"
    /\ UNCHANGED <<exitErr, dialCalled, mailboxRequests>>
    /\ SetupUnchanged

\* setupBackupMode: a.signal, err = signal.NewFileIo(...)
SetupSignal ==
    /\ apc = "NewFileIo"
    /\ Fatal("signaling", NewFileIo(cfg), "NewWebRTC")
    /\ UNCHANGED <<passwordManager, dialCalled, mailboxRequests>>
    /\ SetupUnchanged

\* setupBackupMode: a.peer, err = peer.NewWebRTC(...); NewPeerConnection
\* may fail
SetupPeer ==
    /\ apc = "NewWebRTC"
    /\ \E err \in {"", "NewPeerConnection"} :
         Fatal("peer connection", err,
               IF passwordManager THEN "GetPasswords" ELSE "NewBackupper")
    /\ UNCHANGED <<passwordManager, dialCalled, mailboxRequests>>
    /\ SetupUnchanged

\* setupBackupMode: a.passwordManager.GetPasswords()
SetupPasswords ==
    /\ apc = "GetPasswords"
    /\ Fatal("password manager", GetPasswords(cfg.passwordFile), "NewBackupper")
    /\ UNCHANGED <<passwordManager, dialCalled, mailboxRequests>>
    /\ SetupUnchanged

\* setupBackupMode: a.fileManager, err = filemanager.NewBackupper(...)
SetupFileManager ==
    /\ apc = "NewBackupper"
    /\ Fatal("file manager", NewBackupper(cfg), "run")
    /\ UNCHANGED <<passwordManager, dialCalled, mailboxRequests>>
    /\ SetupUnchanged

\* Run in encryption mode: SavePasswords writes the password file (a nil
\* passwordManager is dereferenced when --passfile is not given)
RunEncryptionMode ==
    /\ apc = "run"
    /\ cfg.encryptionMode
    /\ \E err \in {"", "EACCES"} :
         Fatal("password manager",
               IF passwordManager THEN err ELSE "panic", "exit")
    /\ UNCHANGED <<passwordManager, dialCalled, mailboxRequests>>
    /\ SetupUnchanged

\* runBackupMode: a.listenOS(cancel) and the call of a.peer.Dial(), whose
\* first statement is the request of findPing
RunBackupMode ==
    /\ apc = "run"
    /\ ~cfg.encryptionMode
    /\ apc' = "Dial"
    /\ dialCalled' = TRUE
    /\ mailboxRequests' = Append(mailboxRequests, "findPing")
    /\ UNCHANGED <<exitErr, passwordManager>>
    /\ SetupUnchanged

NextSetup ==
    \/ ParseCmdline
    \/ SetupPasswordManager
    \/ SetupSignal
    \/ SetupPeer
    \/ SetupPasswords
    \/ SetupFileManager
    \/ RunEncryptionMode
    \/ RunBackupMode

SpecSetup == InitSetup /\ [][NextSetup]_vars

-----------------------------------------------------------------------------
(* Properties of the set-up *)

\* the transfer-engine constructor rejects the command line c
ValidationFails(c) ==
    \/ c.destinationDir \in {"missing", "file"}
    \/ c.sourceEntry = "missing"
    \/ c.sourceEntry = "file" /\ c.zipDir
    \/ c.sourceEntry = "dir" /\ ~c.zipDir
    \/ c.sourceEntry = "dir" /\ c.zipDir /\ c.outputFilename = ""

\* the password file of c cannot be decrypted
DecryptionFails(c) == c.passwordFile \in {"partialBlock", "badPadding"}

\* C13 (fail fast): in backup mode, if the transfer-engine constructor
\* validation fails or the password file cannot be decrypted, the run ends
\* with an error before Dial is called and without any mailbox request.
C13_FailFast ==
    (~cfg.encryptionMode /\ (ValidationFails(cfg) \/ DecryptionFails(cfg)))
    => /\ ~dialCalled
       /\ mailboxRequests = <<>>
       /\ apc \notin {"run", "Dial"}
       /\ apc = "exit" => exitErr # ""

\* C13 witness: every other step of Setup has passed, the password file
\* decrypts, and NewBackupper has refused a ZipDir source without output
\* file name: main has ended with that error and Dial was not called
C13_Witness ==
    /\ apc = "exit"
    /\ exitErr = "file manager: output filename is empty"
    /\ cfg.passwordFile = "good"
    /\ cfg.zipDir
    /\ cfg.sourceEntry = "dir"
    /\ ~dialCalled
    /\ mailboxRequests = <<>>

\* the callers between the return of Lock and the return of request: about
\* to send, waiting for the response, or in the backoff sleep
InRequest == {c \in Callers : cpc[c] \in {"do", "await", "sleep"}}

\* the callers whose request is in flight
InFlight == {c \in Callers : cpc[c] = "await"}

\* C14 (serialisation): at every moment at most one outbound mailbox request
\* of an instance is in flight, for every interleaving of its callers; while
\* a caller is in the 429 backoff sleep, and while the spacing delay after a
\* request runs, no request of another caller is in flight or is sent.
C14_Serialisation ==
    /\ Cardinality(InFlight) <= 1
    /\ Cardinality(InRequest) <= 1
    /\ delayUnlocks # {} => InRequest = {}
    /\ (InRequest # {} \/ delayUnlocks # {}) => requestMx

\* C14 witness: one caller is in its backoff sleep after a 429 while the
\* two other callers wait in Lock
C14_Witness ==
    \E c \in Callers :
       /\ cpc[c] = "sleep"
       /\ now < wakeAt[c]
       /\ \A d \in Callers \ {c} : cpc[d] = "lock"
       /\ \E i \in 1..Len(sent) : sent[i].by # c

-----------------------------------------------------------------------------
(* The 429 loop of FileIo.request, seen from one mailbox operation. The    *)
(* mutex and the clock of request are the subject of SpecRate.             *)

\* the Do calls of one request the model follows
MaxAttempts == 3

\* the operations that call request
Operations == {"findFiles", "downloadFile", "deleteFile", "uploadFile"}

\* the method an operation passes to request
Method(op) ==
    IF op = "uploadFile" THEN "POST"
    ELSE IF op = "deleteFile" THEN "DELETE"
    ELSE "GET"

\* the statuses the mailbox answers with
Statuses == {"OK", "Forbidden", "NotFound", "TooManyRequests", "Other"}

\* the statuses an operation takes for success
Allowed(op) ==
    IF op = "downloadFile" THEN {"OK", "NotFound"}
    ELSE IF op = "deleteFile" THEN {"OK", "Forbidden"}
    ELSE {"OK"}

\* the operations that decode the body of the response
Decodes(op) == op \in {"findFiles", "downloadFile"}

InitBackoff ==
    /\ TransferIdle
    /\ LockIdle
    /\ NegIdle
    /\ CleanIdle
    /\ SetupIdle
    /\ PingIdle
    /\ CandIdle
    /\ DoneIdle
    /\ PollIdle
    /\ RateIdle
    /\ BackoffIdle

BackoffUnchanged == UNCHANGED <<transferVars, lockVars, negVars, cleanVars, setupVars, pingVars, candVars,
                                doneVars, pollVars, rateVars>>

\* an operation calls request: http.NewRequest(method, url+urn, body), where
\* body is the *bytes.Buffer of uploadFile or nil; the mutex is taken
OperationStart(op) ==
    /\ bpc \in {"idle", "returned"}
    /\ bop' = op
    /\ bpc' = "do"
    /\ reqBody' = IF op = "uploadFile" THEN "full" ELSE "none"
    /\ doLog' = <<>>
    /\ resp' = ""
    /\ opResult' = ""
    /\ BackoffUnchanged

\* What http.DefaultClient.Do(req) puts on the wire for the body of req. The
\* transport reads req.Body to its end. A buffer that an earlier Do has read
\* yields nothing: the request goes out without its content, unless the
\* transport fails before writing on a reused connection and rewinds the
\* body through req.GetBody.
WireBodies(body) ==
    IF body = "none" THEN {"none"}
    ELSE IF body = "full" THEN {"content"}
    ELSE {"missing", "content"}

\* the answers to a request: a transport error or a status; a request whose
\* body is shorter than its Content-Length gets no allowed status
Answers(wireBody) ==
    IF wireBody = "missing" THEN {"error", "Other"}
    ELSE {"error"} \cup Statuses

\* request: resp, err = http.DefaultClient.Do(req)
RequestSend ==
    /\ bpc = "do"
    /\ Len(doLog) < MaxAttempts
    /\ \E w \in WireBodies(reqBody) :
         /\ doLog' = Append(doLog, [method |-> Method(bop), body |-> w])
         /\ \E a \in Answers(w) : resp' = a
    /\ reqBody' = IF reqBody = "none" THEN "none" ELSE "drained"
    /\ bpc' = "answered"
    /\ UNCHANGED <<bop, opResult>>
    /\ BackoffUnchanged

\* request: err != nil returns the error; StatusTooManyRequests sleeps and
\* continues; any other response ends the loop and request returns it. The
\* operation then checks the status and, for findFiles and downloadFile,
\* decodes the body.
RequestAnswered ==
    /\ bpc = "answered"
    /\ IF resp = "TooManyRequests"
       THEN /\ bpc' = "sleep"
            /\ UNCHANGED opResult
       ELSE /\ bpc' = "returned"
            /\ \E decoded \in BOOLEAN :
                 opResult' = IF resp = "error" THEN "error"
                             ELSE IF resp \notin Allowed(bop)
                                  THEN "response status"
                             ELSE IF Decodes(bop) /\ ~decoded THEN "decode"
                             ELSE "nil"
    /\ UNCHANGED <<bop, reqBody, doLog, resp>>
    /\ BackoffUnchanged

\* request: time.Sleep(7500 * time.Millisecond) returns; continue
BackoffSleep ==
    /\ bpc = "sleep"
    /\ bpc' = "do"
    /\ UNCHANGED <<bop, reqBody, doLog, resp, opResult>>
    /\ BackoffUnchanged

NextBackoff ==
    \/ \E op \in Operations : OperationStart(op)
    \/ RequestSend
    \/ RequestAnswered
    \/ BackoffSleep

SpecBackoff == InitBackoff /\ [][NextBackoff]_vars

-----------------------------------------------------------------------------
(* Properties of the 429 loop *)

\* C15 (429 backoff): TooManyRequests is never returned to the caller of a
\* mailbox operation; after the backoff sleep the same request is sent
\* again, until an answer other than 429 or a transport error; the operation
\* then succeeds if that answer has an allowed status (and a body the
\* operation can decode).
C15_BackoffRetry ==
    /\ opResult # "" => resp # "TooManyRequests"
    /\ \A i \in 1..Len(doLog) : doLog[i] = doLog[1]
    /\ (bpc = "returned" /\ resp \in Allowed(bop))
          => opResult \in {"nil", "decode"}

-----------------------------------------------------------------------------
(* Shutdown cleanup of instance A: Listen has left its loop and calls       *)
(* s.cleanUp().  The peer connection of A is a goroutine of its own: until  *)
(* it is closed it goes on emitting candidates, which onConnICECandidate    *)
(* uploads.                                                                 *)

\* the entries the session has left when Listen of A leaves its loop: the
\* description of A, and possibly a candidate of A or of the other instance
CleanUpMailboxes ==
    LET sdp == UploadFile(<<>>, 1,
                   FileName(SessionID, fileIoFileContentTypeSDP,
                            InstanceID["A"]),
                   SDPContent(OfferPayload), "A")
    IN {sdp} \cup
       {UploadFile(sdp, 2,
            FileName(SessionID, fileIoFileContentTypeCandidate,
                     InstanceID[p]),
            CandidateContent(<<1>>), p) : p \in Peers}

\* the descriptions are exchanged, the gathering goes on, the root context
\* is cancelled and Listen is about to call cleanUp; runBackupMode has
\* called a.peer.Close() already or has not yet
InitCleanUp ==
    /\ TransferIdle
    /\ LockIdle
    /\ NegIdle
    /\ BackoffIdle
    /\ SetupIdle
    /\ DoneIdle
    /\ PollIdle
    /\ RateIdle
    /\ mailbox \in CleanUpMailboxes
    /\ nextKey = Len(mailbox) + 1
    /\ dpc = [p \in Peers |-> "init"]
    /\ nodes = [p \in Peers |-> <<>>]
    /\ pingResult = [p \in Peers |-> ""]
    /\ dialResult = [p \in Peers |-> ""]
    /\ onDataChannel = [p \in Peers |-> ""]
    /\ reqFaults = 0
    /\ sigLog = <<>>
    /\ startedAfter = [p \in Peers |-> {}]
    /\ initMailbox = mailbox
    /\ dialRole \in {"offerer", "answerer"}
    /\ remoteDescription = IF dialRole = "offerer" THEN "answer" ELSE "offer"
    /\ localDescription = IF dialRole = "offerer" THEN "offer" ELSE "answer"
    /\ candidates = <<>>
    /\ candidatesMx = ""
    /\ emitted = 0
    /\ gatherDone = FALSE
    /\ published = <<>>
    /\ sdpPc = "idle"
    /\ sdpType = remoteDescription
    /\ sdpSeen = 1
    /\ flushI = 0
    /\ ipc = "idle"
    /\ iceCur = 0
    /\ connClosed \in BOOLEAN
    /\ installedAt = 0
    /\ cleanPc = "find"
    /\ cleanNodes = <<>>
    /\ cleanFailed = FALSE

CleanUpUnchanged ==
    UNCHANGED <<transferVars, lockVars, negVars, backoffVars, setupVars, doneVars, pollVars,
                rateVars, candVars, nextKey, dpc, nodes, pingResult,
                dialResult, onDataChannel, sigLog, startedAfter, initMailbox>>

\* cleanUp: files, err := s.findFiles(s.cfg.SessionID); the error is logged
\* and cleanUp goes on to "range files.Nodes" with files = nil, which is a
\* nil pointer dereference
CleanUpFind ==
    /\ cleanPc = "find"
    /\ \E fail \in BOOLEAN :
         /\ MayFail(fail)
         /\ IF fail
            THEN /\ reqFaults' = reqFaults + 1
                 /\ cleanFailed' = TRUE
                 /\ cleanPc' = "panic"
                 /\ UNCHANGED cleanNodes
            ELSE /\ cleanNodes' = FindFiles(SessionID, mailbox)
                 /\ cleanPc' = "delete"
                 /\ UNCHANGED <<reqFaults, cleanFailed>>
    /\ UNCHANGED mailbox
    /\ CleanUpUnchanged

\* cleanUp: one iteration of "for _, node := range files.Nodes": deleteFile,
\* its error logged; cleanUp returns when the loop ends
CleanUpDelete ==
    /\ cleanPc = "delete"
    /\ IF cleanNodes = <<>>
       THEN /\ cleanPc' = "done"
            /\ UNCHANGED <<cleanNodes, mailbox, reqFaults, cleanFailed>>
       ELSE \E fail \in BOOLEAN :
              /\ MayFail(fail)
              /\ cleanNodes' = Tail(cleanNodes)
              /\ IF fail \/ ~HasKey(mailbox, Head(cleanNodes).key)
                 THEN /\ reqFaults' = IF fail THEN reqFaults + 1
                                      ELSE reqFaults
                      /\ cleanFailed' = TRUE
                      /\ UNCHANGED mailbox
                 ELSE /\ mailbox' = DeleteFile(mailbox, Head(cleanNodes).key)
                      /\ UNCHANGED <<reqFaults, cleanFailed>>
              /\ UNCHANGED cleanPc
    /\ CleanUpUnchanged

NextCleanUp ==
    \/ CleanUpFind
    \/ CleanUpDelete
    \/ IceEmit
    \/ IceGatheringComplete
    \/ IceLock
    \/ IceHandle
    \/ ConnClose

SpecCleanUp == InitCleanUp /\ [][NextCleanUp]_vars

-----------------------------------------------------------------------------
(* Properties of the shutdown cleanup *)

\* the entries of the session in the mailbox that instance A has uploaded
OwnSessionEntries ==
    {i \in 1..Len(mailbox) :
        /\ mailbox[i].author = "A"
        /\ Contains(mailbox[i].name, SessionID)}

\* C20 (no leftover entries): once an instance's shutdown cleanup has
\* completed with its list and delete requests succeeding, the mailbox holds
\* no entry of the session authored by that instance, for every interleaving
\* of cleanup with that instance's own SDP and candidate publication tasks.
C20_NoLeftoverEntries ==
    (cleanPc = "done" /\ ~cleanFailed) => OwnSessionEntries = {}

\* C30 (cleanup with a failed listing): when the list request of shutdown
\* cleanup fails, cleanup logs the error, deletes nothing, and the polling
\* task ends normally, so that the orchestrator's join completes: cleanUp
\* never ends in a crash of its goroutine, which is where a failed listing
\* takes it.
C30_CleanupWithFailedListing == cleanPc # "panic"

-----------------------------------------------------------------------------
(* Instance A from its call of Dial to its polling loop: runBackupMode      *)
(* starts Listen only when Dial has returned nil.  The other instance       *)
(* uploads entries meanwhile.                                               *)

\* what the service holds when A calls Dial: nothing, the ping of the other
\* instance, or a description an earlier process of the session has left
ListenMailboxes ==
    { <<>>,
      <<StaleEntry(0, SessionID, fileIoFileContentTypePing, InstanceID["B"])>>,
      <<StaleEntry(0, SessionID, fileIoFileContentTypeSDP, <<"x", "3">>)>> }

InitListen ==
    /\ TransferIdle
    /\ LockIdle
    /\ NegIdle
    /\ CleanIdle
    /\ BackoffIdle
    /\ SetupIdle
    /\ CandIdle
    /\ DoneIdle
    /\ RateIdle
    /\ PollIdle
    /\ mailbox \in ListenMailboxes
    /\ nextKey = 1
    /\ dpc = [p \in Peers |-> IF p = "A" THEN "init" ELSE "done"]
    /\ nodes = [p \in Peers |-> <<>>]
    /\ pingResult = [p \in Peers |-> ""]
    /\ dialResult = [p \in Peers |-> IF p = "A" THEN "" ELSE "ok"]
    /\ onDataChannel = [p \in Peers |-> ""]
    /\ reqFaults = 0
    /\ sigLog = <<>>
    /\ startedAfter = [p \in Peers |-> {}]
    /\ initMailbox = mailbox

NextListen ==
    \/ DialStart("A")
    \/ PingFind("A")
    \/ PingUpload("A")
    \/ WaitOffer("A")
    \/ PingDelete("A")
    \/ Offer("A")
    \/ \E kind \in Kinds : EntryUpload("B", kind)
    \/ PollFind
    \/ PollNode

SpecListen == InitListen /\ [][NextListen]_vars

-----------------------------------------------------------------------------
(* Properties of the handling of mailbox errors *)

\* a request of instance A fails in this step
RequestFails == reqFaults' = reqFaults + 1

\* a failed list request of a tick leaves the loop at its select, where the
\* next tick is served
ListErrorNonFatal ==
    (RequestFails /\ pollPc = "wait" /\ dpc["A"] = "done")
       => pollPc' = "wait" /\ dialResult' = dialResult

\* a failed download passes over its entry only: the loop goes on with the
\* next entry of the same listing
DownloadErrorSkipsOne ==
    (RequestFails /\ pollPc = "nodes")
       => pollPc' = "nodes" /\ pollNodes' = Tail(pollNodes)

\* an entry of the other instance that is listed, is still there and is
\* downloaded is passed to its handler, whatever has failed before it
DownloadedIsDispatched ==
    (/\ pollPc = "nodes"
     /\ pollNodes # <<>>
     /\ pollNodes' = Tail(pollNodes)
     /\ ~RequestFails
     /\ ~Contains(Head(pollNodes).name, InstanceID["A"])
     /\ HasKey(mailbox, Head(pollNodes).key)
     /\ EntryOf(mailbox, Head(pollNodes).key).content.type
           \in {fileIoFileContentTypeSDP, fileIoFileContentTypeCandidate})
       => dispatched' =
             Append(dispatched, EntryOf(mailbox, Head(pollNodes).key))

\* the ticks of the loop are served as long as Dial has returned nil
LoopRuns ==
    (pollPc = "wait" /\ dialResult["A"] = "ok" /\ polls < MaxPolls)
       => ENABLED PollFind

\* Dial has returned an error: the run ends and Listen is never started
DialErrorEndsRun ==
    dialResult["A"] = "error"
       => dpc["A"] = "done" /\ polls = 0 /\ ~ENABLED PollFind

\* C22 (mailbox errors), as claimed: a failed list request in one tick
\* leaves the loop running for the following ticks, and a failed download of
\* one entry skips only that entry (the remaining entries of the same tick
\* are still downloaded and dispatched); a mailbox error during dial is
\* returned to the orchestrator and ends the run.
C22_MailboxErrors ==
    /\ [](LoopRuns /\ DialErrorEndsRun)
    /\ [][/\ ListErrorNonFatal
          /\ DownloadErrorSkipsOne
          /\ DownloadedIsDispatched
          /\ (RequestFails /\ dpc["A"] \notin {"init", "done"})
                => dialResult'["A"] = "error"]_vars

\* C22, amended: as claimed for the polling loop; during dial an error of
\* the ping listing, of the ping upload or of the offer upload is returned
\* to the orchestrator and ends the run, while an error of deleting a found
\* ping is logged and Dial goes on.
C22_MailboxErrorsButPingDelete ==
    /\ [](LoopRuns /\ DialErrorEndsRun)
    /\ [][/\ ListErrorNonFatal
          /\ DownloadErrorSkipsOne
          /\ DownloadedIsDispatched
          /\ (RequestFails /\ dpc["A"] \in {"find", "upload", "offer"})
                => dialResult'["A"] = "error"
          /\ (RequestFails /\ dpc["A"] = "delete")
                => dialResult'["A"] = "" /\ dpc'["A"] \in {"delete", "offer"}
         ]_vars

\* C22 witness: Dial has returned nil; in one tick the download of the first
\* listed entry has failed, and the description the other instance has
\* uploaded, listed after it, has been passed to its handler
C22_Witness ==
    /\ dialResult["A"] = "ok"
    /\ polls = 1
    /\ pollPc = "wait"
    /\ failedDownloads # {}
    /\ Len(dispatched) = 1
    /\ dispatched[1].author = "B"

-----------------------------------------------------------------------------
(* Negotiation of the two instances: each calls Dial and then starts Listen; *)
(* the polling loops download the other instance's entries and pass them    *)
(* to onSignalSDP and onSignalCandidate.  The instance B is started when    *)
(* the Ping of A has returned, and every mailbox request succeeds.          *)

\* largest number of candidates the ICE agent of one instance emits
MaxNegCandidates == 1

\* the session description the answerer publishes
AnswerPayload == <<"a", "n", "s", "w", "e", "r">>

\* sdp.Type of a downloaded description
SdpTypeOf(payload) == IF payload = OfferPayload THEN "offer" ELSE "answer"

InitNegotiate ==
    /\ TransferIdle
    /\ LockIdle
    /\ CleanIdle
    /\ BackoffIdle
    /\ SetupIdle
    /\ CandIdle
    /\ DoneIdle
    /\ PollIdle
    /\ RateIdle
    /\ NegIdle
    /\ mailbox \in
         { <<>>,
           <<StaleEntry(0, <<"v">>, fileIoFileContentTypePing, <<"x", "3">>)>> }
    /\ nextKey = 1
    /\ dpc = [p \in Peers |-> "init"]
    /\ nodes = [p \in Peers |-> <<>>]
    /\ pingResult = [p \in Peers |-> ""]
    /\ dialResult = [p \in Peers |-> ""]
    /\ onDataChannel = [p \in Peers |-> ""]
    /\ reqFaults = MaxReqFaults
    /\ sigLog = <<>>
    /\ startedAfter = [p \in Peers |-> {}]
    /\ initMailbox = mailbox

NegUnchanged ==
    UNCHANGED <<transferVars, lockVars, cleanVars, backoffVars, setupVars, candVars,
                doneVars, pollVars, rateVars, dpc, nodes, pingResult,
                dialResult, onDataChannel, reqFaults, sigLog, startedAfter,
                initMailbox>>

\* the second instance is started when the Ping of the first has returned
DialSecond == pingResult["A"] # "" /\ DialStart("B")

\* runBackupMode: Dial has returned nil: go a.signal.Listen(ctx)
ListenStart(p) ==
    /\ negPc[p] = "off"
    /\ dpc[p] = "done"
    /\ dialResult[p] = "ok"
    /\ negPc' = [negPc EXCEPT ![p] = "wait"]
    /\ UNCHANGED <<mailbox, nextKey, negNodes, sdpHandled, candHandled,
                   negRemote, negLocal, negBuf, negFlushI, negEmitted>>
    /\ NegUnchanged

\* Listen: case <-ticker.C: sniffCandidates: s.findFiles(s.cfg.SessionID)
NegFind(p) ==
    /\ negPc[p] = "wait"
    /\ negNodes' = [negNodes EXCEPT ![p] = FindFiles(SessionID, mailbox)]
    /\ negPc' = [negPc EXCEPT ![p] = "nodes"]
    /\ UNCHANGED <<mailbox, nextKey, sdpHandled, candHandled, negRemote,
                   negLocal, negBuf, negFlushI, negEmitted>>
    /\ NegUnchanged

\* sniffCandidates: one iteration of "for _, node := range files.Nodes": an
\* own entry is passed over; another one is downloaded, which removes it from
\* the service, and its payload is passed to the handler of its type;
\* onSignalSDP: SetRemoteDescription(sdp)
NegNode(p) ==
    /\ negPc[p] = "nodes"
    /\ IF negNodes[p] = <<>>
       THEN /\ negPc' = [negPc EXCEPT ![p] = "wait"]
            /\ UNCHANGED <<mailbox, negNodes, sdpHandled, candHandled,
                           negRemote>>
       ELSE LET node == Head(negNodes[p]) IN
            /\ negNodes' = [negNodes EXCEPT ![p] = Tail(negNodes[p])]
            /\ IF OwnEntry(node.name, InstanceID[p]) \/ ~HasKey(mailbox, node.key)
               THEN UNCHANGED <<mailbox, negPc, sdpHandled, candHandled,
                                negRemote>>
               ELSE LET content == EntryOf(mailbox, node.key).content IN
                    /\ mailbox' = DeleteFile(mailbox, node.key)
                    /\ IF content.type = fileIoFileContentTypeSDP
                       THEN /\ sdpHandled' = [sdpHandled EXCEPT
                                   ![p] = Append(@, content.payload)]
                            /\ negRemote' = [negRemote EXCEPT
                                   ![p] = SdpTypeOf(content.payload)]
                            /\ negPc' = [negPc EXCEPT
                                   ![p] = IF SdpTypeOf(content.payload) = "offer"
                                          THEN "answer" ELSE "flush"]
                            /\ UNCHANGED candHandled
                       ELSE /\ candHandled' =
                                 IF content.type = fileIoFileContentTypeCandidate
                                 THEN [candHandled EXCEPT
                                         ![p] = Append(@, content.payload)]
                                 ELSE candHandled
                            /\ UNCHANGED <<negPc, sdpHandled, negRemote>>
    /\ UNCHANGED <<nextKey, negLocal, negBuf, negFlushI, negEmitted>>
    /\ NegUnchanged

\* (mutation of NegAnswer: the answer is set as local description and not
\* sent)
NegAnswerNotSent(p) ==
    /\ negPc[p] = "answer"
    /\ negLocal' = [negLocal EXCEPT ![p] = "answer"]
    /\ negPc' = [negPc EXCEPT ![p] = "flush"]
    /\ UNCHANGED <<mailbox, nextKey, negNodes, sdpHandled, candHandled,
                   negRemote, negBuf, negFlushI, negEmitted>>
    /\ NegUnchanged

\* onSignalSDPOffer: CreateAnswer, p.signal.SendSDP(payload),
\* SetLocalDescription(answer)
NegAnswer(p) ==
    /\ negPc[p] = "answer"
    /\ mailbox' = UploadFile(mailbox, nextKey,
                      FileName(SessionID, fileIoFileContentTypeSDP,
                               InstanceID[p]),
                      SDPContent(AnswerPayload), p)
    /\ nextKey' = nextKey + 1
    /\ negLocal' = [negLocal EXCEPT ![p] = "answer"]
    /\ negPc' = [negPc EXCEPT ![p] = "flush"]
    /\ UNCHANGED <<negNodes, sdpHandled, candHandled, negRemote, negBuf,
                   negFlushI, negEmitted>>
    /\ NegUnchanged

\* onSignalSDP: candidatesMx.Lock(); one iteration of "for _, candidate :=
\* range p.candidates": signalSendCandidate; after the last one the handler
\* returns to the polling loop
NegFlush(p) ==
    /\ negPc[p] = "flush"
    /\ IF negFlushI[p] < Len(negBuf[p])
       THEN /\ mailbox' = UploadFile(mailbox, nextKey,
                              FileName(SessionID, fileIoFileContentTypeCandidate,
                                       InstanceID[p]),
                              CandidateContent(negBuf[p][negFlushI[p] + 1]), p)
            /\ nextKey' = nextKey + 1
            /\ negFlushI' = [negFlushI EXCEPT ![p] = @ + 1]
            /\ UNCHANGED negPc
       ELSE /\ negPc' = [negPc EXCEPT ![p] = "nodes"]
            /\ UNCHANGED <<mailbox, nextKey, negFlushI>>
    /\ UNCHANGED <<negNodes, sdpHandled, candHandled, negRemote, negLocal,
                   negBuf, negEmitted>>
    /\ NegUnchanged

\* the local description of p is set: the ICE agent gathers candidates
NegGathering(p) == onDataChannel[p] = "created" \/ negLocal[p] # ""

\* onConnICECandidate under candidatesMx, which onSignalSDP holds while it
\* flushes: the candidate is buffered while there is no remote description
\* and uploaded otherwise
NegIce(p) ==
    /\ NegGathering(p)
    /\ negPc[p] # "flush"
    /\ negEmitted[p] < MaxNegCandidates
    /\ negEmitted' = [negEmitted EXCEPT ![p] = @ + 1]
    /\ IF negRemote[p] = ""
       THEN /\ negBuf' = [negBuf EXCEPT ![p] = Append(@, <<negEmitted[p] + 1>>)]
            /\ UNCHANGED <<mailbox, nextKey>>
       ELSE /\ mailbox' = UploadFile(mailbox, nextKey,
                              FileName(SessionID, fileIoFileContentTypeCandidate,
                                       InstanceID[p]),
                              CandidateContent(<<negEmitted[p] + 1>>), p)
            /\ nextKey' = nextKey + 1
            /\ UNCHANGED negBuf
    /\ UNCHANGED <<negPc, negNodes, sdpHandled, candHandled, negRemote,
                   negLocal, negFlushI>>
    /\ NegUnchanged

NextNegotiate ==
    \/ DialStart("A")
    \/ DialSecond
    \/ \E p \in Peers : PingFind(p)
    \/ \E p \in Peers : PingUpload(p)
    \/ \E p \in Peers : WaitOffer(p)
    \/ \E p \in Peers : PingDelete(p)
    \/ \E p \in Peers : Offer(p)
    \/ \E p \in Peers : ListenStart(p)
    \/ \E p \in Peers : NegFind(p)
    \/ \E p \in Peers : NegNode(p)
    \/ \E p \in Peers : NegAnswer(p)
    \/ \E p \in Peers : NegFlush(p)
    \/ \E p \in Peers : NegIce(p)

\* every goroutine that can take a step takes one: the Dial of each instance,
\* its polling loop, whose ticker keeps firing, and the handlers it calls
NegFairness ==
    /\ WF_vars(DialStart("A"))
    /\ WF_vars(DialSecond)
    /\ \A p \in Peers :
         /\ WF_vars(PingFind(p))
         /\ WF_vars(PingUpload(p))
         /\ WF_vars(WaitOffer(p))
         /\ WF_vars(PingDelete(p))
         /\ WF_vars(Offer(p))
         /\ WF_vars(ListenStart(p))
         /\ WF_vars(NegFind(p))
         /\ WF_vars(NegNode(p))
         /\ WF_vars(NegAnswer(p))
         /\ WF_vars(NegFlush(p))

SpecNegotiate == InitNegotiate /\ [][NextNegotiate]_vars /\ NegFairness

\* the handler of each instance has been passed a description once at most:
\* the answerer's the offer, the offerer's the answer
HandledOnceAtMost ==
    \A p \in Peers :
        /\ Len(sdpHandled[p]) <= 1
        /\ \A i \in 1..Len(sdpHandled[p]) :
              sdpHandled[p][i] = IF pingResult[p] = "found" THEN AnswerPayload
                                 ELSE OfferPayload

\* the offer has been passed to the answerer's SDP handler and the answer to
\* the offerer's
Negotiated ==
    \E o, a \in Peers :
        /\ pingResult[o] = "found"
        /\ pingResult[a] = "notFound"
        /\ sdpHandled[a] = <<OfferPayload>>
        /\ sdpHandled[o] = <<AnswerPayload>>

\* C27 (negotiation progress): with two instances started one after the
\* other, a mailbox that delivers each entry to one download, no request
\* failures and fair scheduling, the offer is eventually passed exactly once
\* to the answerer's SDP handler and the answer is eventually passed exactly
\* once to the offerer's SDP handler.
C27_NegotiationProgress == []HandledOnceAtMost /\ <>[]Negotiated

\* C27 witness: both descriptions have been handled, and each instance has
\* been passed a candidate of the other one
C27_Witness ==
    /\ Negotiated
    /\ \A p \in Peers : Len(candHandled[p]) = 1

-----------------------------------------------------------------------------
(* The mutexes of one instance: p.candidatesMx, held by onSignalSDP while it *)
(* flushes and by onConnICECandidate, and s.requestMx, locked by every      *)
(* FileIo.request and unlocked by the goroutine of DelayUnlock.             *)

\* largest number of buffered candidates onSignalSDP flushes
MaxLockCandidates == 2
\* largest number of 429 responses to one request
MaxLockRetries == 1
\* largest number of requests of cleanUp: the listing and the deletes
MaxCleanUpRequests == 2

InitLocks ==
    /\ TransferIdle
    /\ NegIdle
    /\ CleanIdle
    /\ BackoffIdle
    /\ SetupIdle
    /\ PingIdle
    /\ CandIdle
    /\ DoneIdle
    /\ PollIdle
    /\ RateIdle
    /\ LockIdle

LocksUnchanged ==
    UNCHANGED <<transferVars, negVars, cleanVars, backoffVars, setupVars,
                pingVars, candVars, doneVars, pollVars, rateVars>>

\* onSignalSDP (the remote description is set) or onConnICECandidate (the
\* candidate is not nil) reaches p.candidatesMx.Lock()
CandidatesMxReach(t) ==
    /\ lockPc[t] = "idle"
    /\ lockPc' = [lockPc EXCEPT ![t] = "lockCand"]
    /\ UNCHANGED <<candidatesMxBy, requestMxHeld, unlockTimers, lockTodo,
                   lockRetries>>
    /\ LocksUnchanged

\* p.candidatesMx.Lock() returns; onSignalSDP has the buffered candidates to
\* send, onConnICECandidate appends its candidate to the buffer (nothing to
\* send) or has it to send
CandidatesMxLock(t) ==
    /\ lockPc[t] = "lockCand"
    /\ candidatesMxBy = ""
    /\ candidatesMxBy' = t
    /\ lockPc' = [lockPc EXCEPT ![t] = "held"]
    /\ \E n \in 0..MaxLockCandidates :
         /\ t # "listen" => n <= 1
         /\ lockTodo' = [lockTodo EXCEPT ![t] = n]
    /\ UNCHANGED <<requestMxHeld, unlockTimers, lockRetries>>
    /\ LocksUnchanged

\* under candidatesMx: the next signalSendCandidate calls request, or the
\* handler returns and its deferred p.candidatesMx.Unlock() runs; the polling
\* loop goes on and, when the context is cancelled, calls cleanUp
CandidatesMxNext(t) ==
    /\ lockPc[t] = "held"
    /\ IF lockTodo[t] > 0
       THEN /\ lockPc' = [lockPc EXCEPT ![t] = "lockReq"]
            /\ UNCHANGED <<candidatesMxBy, lockTodo>>
       ELSE /\ candidatesMxBy' = ""
            /\ IF t = "listen"
               THEN /\ lockPc' = [lockPc EXCEPT ![t] = "cleanUp"]
                    /\ \E n \in 1..MaxCleanUpRequests :
                         lockTodo' = [lockTodo EXCEPT ![t] = n]
               ELSE /\ lockPc' = [lockPc EXCEPT ![t] = "done"]
                    /\ UNCHANGED lockTodo
    /\ UNCHANGED <<requestMxHeld, unlockTimers, lockRetries>>
    /\ LocksUnchanged

\* cleanUp: findFiles and the deleteFile of each listed node call request;
\* after the last one Listen returns
CleanUpNext(t) ==
    /\ lockPc[t] = "cleanUp"
    /\ lockPc' = [lockPc EXCEPT ![t] = IF lockTodo[t] > 0 THEN "lockReq"
                                       ELSE "done"]
    /\ UNCHANGED <<candidatesMxBy, requestMxHeld, unlockTimers, lockTodo,
                   lockRetries>>
    /\ LocksUnchanged

\* request: s.requestMx.Lock() returns
RequestMxLock(t) ==
    /\ lockPc[t] = "lockReq"
    /\ ~requestMxHeld
    /\ requestMxHeld' = TRUE
    /\ lockPc' = [lockPc EXCEPT ![t] = "do"]
    /\ UNCHANGED <<candidatesMxBy, unlockTimers, lockTodo, lockRetries>>
    /\ LocksUnchanged

\* request: Do returns 429: time.Sleep(7500 ms), continue, the mutex held
RequestMxRetry(t) ==
    /\ lockPc[t] = "do"
    /\ lockRetries < MaxLockRetries
    /\ lockRetries' = lockRetries + 1
    /\ UNCHANGED <<lockPc, candidatesMxBy, requestMxHeld, unlockTimers,
                   lockTodo>>
    /\ LocksUnchanged

\* (mutation of RequestMxReturn: request returns without the deferred
\* DelayUnlock)
RequestMxReturnNoUnlock(t) ==
    /\ lockPc[t] = "do"
    /\ lockRetries' = 0
    /\ lockTodo' = [lockTodo EXCEPT ![t] = @ - 1]
    /\ lockPc' = [lockPc EXCEPT ![t] = IF candidatesMxBy = t THEN "held"
                                       ELSE "cleanUp"]
    /\ UNCHANGED <<candidatesMxBy, requestMxHeld, unlockTimers>>
    /\ LocksUnchanged

\* request: Do returns an error or another response: request returns and
\* the deferred s.requestMx.DelayUnlock starts its goroutine
RequestMxReturn(t) ==
    /\ lockPc[t] = "do"
    /\ unlockTimers' = unlockTimers + 1
    /\ lockRetries' = 0
    /\ lockTodo' = [lockTodo EXCEPT ![t] = @ - 1]
    /\ lockPc' = [lockPc EXCEPT ![t] = IF candidatesMxBy = t THEN "held"
                                       ELSE "cleanUp"]
    /\ UNCHANGED <<candidatesMxBy, requestMxHeld>>
    /\ LocksUnchanged

\* DelayUnlock's goroutine: time.Sleep(delay) returns, m.Mutex.Unlock()
DelayUnlockFires ==
    /\ unlockTimers > 0
    /\ unlockTimers' = unlockTimers - 1
    /\ requestMxHeld' = FALSE
    /\ UNCHANGED <<lockPc, candidatesMxBy, lockTodo, lockRetries>>
    /\ LocksUnchanged

NextLocks ==
    \/ \E t \in LockTasks : CandidatesMxReach(t)
    \/ \E t \in LockTasks : CandidatesMxLock(t)
    \/ \E t \in LockTasks : CandidatesMxNext(t)
    \/ \E t \in LockTasks : CleanUpNext(t)
    \/ \E t \in LockTasks : RequestMxLock(t)
    \/ \E t \in LockTasks : RequestMxRetry(t)
    \/ \E t \in LockTasks : RequestMxReturn(t)
    \/ DelayUnlockFires

\* a goroutine that can run does; an HTTP request returns and the sleep of
\* DelayUnlock ends; a goroutine blocked in Lock gets the mutex when it is
\* unlocked again and again (sync.Mutex hands it over to a starving waiter)
LocksFairness ==
    /\ WF_vars(DelayUnlockFires)
    /\ \A t \in LockTasks :
         /\ WF_vars(CandidatesMxNext(t))
         /\ WF_vars(CleanUpNext(t))
         /\ WF_vars(RequestMxReturn(t))
         /\ SF_vars(CandidatesMxLock(t))
         /\ SF_vars(RequestMxLock(t))

SpecLocks == InitLocks /\ [][NextLocks]_vars /\ LocksFairness

\* a goroutine in Lock of requestMx finds it free, or waits for the
\* goroutine of a DelayUnlock or for a request in flight, neither of which
\* takes a mutex; a goroutine in Lock of candidatesMx finds it free or waits
\* for a holder that runs or that is itself in Lock of requestMx only
NoCircularWait ==
    /\ requestMxHeld => (unlockTimers > 0 \/ \E u \in LockTasks : lockPc[u] = "do")
    /\ candidatesMxBy # "" => lockPc[candidatesMxBy] \in {"held", "lockReq", "do"}
    /\ \A t \in LockTasks : lockPc[t] \in {"held", "do"} /\ t # "listen"
                               => candidatesMxBy = t

\* C28 (no lock deadlock): with candidatesMx and requestMx taken by the
\* polling loop (onSignalSDP flushing candidates, cleanUp) and the candidate
\* callbacks, no state is reached in which goroutines wait on each other,
\* and every Lock of either mutex eventually returns, provided each HTTP
\* request eventually returns.
C28_NoLockDeadlock ==
    /\ []NoCircularWait
    /\ \A t \in LockTasks :
         /\ (lockPc[t] = "lockCand") ~> (candidatesMxBy = t)
         /\ (lockPc[t] = "lockReq") ~> (lockPc[t] = "do")

\* C28 witness: onSignalSDP holds candidatesMx and waits for requestMx, which
\* the last request of a callback has left locked until its DelayUnlock
\* fires, while the other callback waits for candidatesMx
C28_Witness ==
    /\ candidatesMxBy = "listen"
    /\ lockPc["listen"] = "lockReq"
    /\ lockPc["ice1"] = "lockCand"
    /\ lockPc["ice2"] = "done"
    /\ requestMxHeld
    /\ unlockTimers = 1

-----------------------------------------------------------------------------
(* One receive into a directory with a longer version chain: the receiver   *)
(* and the sender of one run, from the opening of the data channel on.      *)

\* largest Versions value of the receiver in this specification
MaxRotationVersions == 3

\* the data channel has opened on both sides (the state StartRun leads to),
\* the directory holds any part of the chain F .. F.(MaxRotationVersions - 1)
InitRotation ==
    /\ SessionIdle
    /\ Versions \in 0..MaxRotationVersions
    /\ frameName \in SourceNames
    /\ srcContent \in SourceContents
    /\ dirs = InitialDirs
    /\ \E idx \in SUBSET (0..(MaxRotationVersions - 1)) :
         files = StaleFiles(frameName, idx)
    /\ wire = <<>>
    /\ wireState = "open"
    /\ spc = "writeLen"
    /\ rpc = "readLen"
    /\ nameLen = 0
    /\ name = <<>>
    /\ shiftI = 0
    /\ recvErr = FALSE
    /\ sendErr = FALSE
    /\ run = 1
    /\ faults = 0
    /\ received = <<>>
    /\ snap = files
    /\ written = {}
    /\ initFiles = files

NextRotation ==
    \/ ConnFail
    \/ SendLen
    \/ SendName
    \/ SendFile
    \/ SendShutdown
    \/ SendDrain
    \/ RecvReadLen
    \/ RecvReadName
    \/ ShiftStep
    \/ SaveCreate
    \/ SaveCopy

SpecRotation == InitRotation /\ [][NextRotation]_vars

\* the stored files whose content the step destroys: the file is gone or has
\* another content, and its content has not appeared at another path
DestroyedByStep ==
    {q \in DOMAIN files :
        /\ q \notin DOMAIN files' \/ files'[q] # files[q]
        /\ ~\E t \in DOMAIN files' :
              /\ files'[t] = files[q]
              /\ t \notin DOMAIN files \/ files[t] # files[q]}

\* a step of the loop of shiftFileVersions
RotationStep == Rotating /\ shiftI' # shiftI

\* C31 (rotation loses only the oldest), as claimed: during version rotation
\* the only stored version whose content is destroyed is the one at index
\* V-1, also when an individual rename has failed.
C31_RotationLosesOnlyOldest ==
    [][RotationStep => DestroyedByStep \subseteq {ChainPath(OldestVersion)}]_vars

\* C31, amended: a step of version rotation destroys the content of one
\* stored version at most; it is the one at index V-1 when no remove or
\* rename of the rotation has failed, and otherwise the one at index V-1 or
\* the one at the index i+1 the step at i renames onto, which is still there
\* only because its own remove or rename has failed.
C31_RotationLosesOldestOrFailed ==
    [][RotationStep =>
         /\ Cardinality(DestroyedByStep) <= 1
         /\ DestroyedByStep \subseteq
               IF faults = 0 THEN {ChainPath(OldestVersion)}
               ELSE {ChainPath(OldestVersion), ChainPath(shiftI + 1)}
         /\ faults' > faults => DestroyedByStep = {}]_vars

\* C31 witness: under a cap of 3 with F and F.1 stored, the rename of F.1 to
\* F.2 has failed and the rename of F onto F.1 has destroyed what F.1 held
C31_Witness ==
    /\ rpc = "shift"
    /\ shiftI < 0
    /\ Versions = 3
    /\ faults = 1
    /\ DOMAIN snap = {ChainPath(0), ChainPath(1)}
    /\ DOMAIN files = {ChainPath(1)}
    /\ files[ChainPath(1)] = snap[ChainPath(0)]
    /\ files[ChainPath(1)] # snap[ChainPath(1)]

=============================================================================
